---------------------------- MODULE Spec2Model ----------------------------
(***************************************************************************)
(* A model of pytocpp's IR generator (src/src/pytocpp/ir_generator.py):    *)
(* the name allocator, the lowering of an AST into basic blocks, the three  *)
(* optimizer passes and the generate driver.                                *)
(*                                                                          *)
(* Text (operand text, temporary, block and variable names) is a sequence   *)
(* of one-character strings, so that str(), int(), str.isdigit() and        *)
(* str.startswith() are computed and not assumed.                           *)
(***************************************************************************)
EXTENDS Integers, Sequences, FiniteSets, TLC

VARIABLES
    temp_counter,       \* IRGenerator.temp_counter
    block_counter,      \* IRGenerator.block_counter
    function_counter,   \* IRGenerator.function_counter
    ir_code,            \* the IR module the optimizer passes mutate in place
    op,                 \* the name of the last method called
    arg,                \* the argument of that call, as it was when passed
    ret,                \* what that call returned, or that it raised
    calls,              \* how many methods of the generator have been called
    ast_tree,           \* Transpiler.transpile: ast_tree, the parser's result
    type_analysis       \* Transpiler.transpile: type_info, the analyzer's result

vars == <<temp_counter, block_counter, function_counter, ir_code, op, arg, ret,
          calls, ast_tree, type_analysis>>

-----------------------------------------------------------------------------
(* Bounds of the model *)

\* instructions in a hand-built function handed to an optimizer pass
MaxInstrs == 3
\* optimizer calls made in a row on one hand-built module
MaxPasses == 2
\* calls made on one generator
MaxCalls == 3
\* nesting depth of the compound statements of a lowered function body
MaxDepth == 2

-----------------------------------------------------------------------------
(* Python text *)

\* Python's None where a text is expected (an instruction without result)
PyNone == <<"None">>

AsciiDigits == {"0", "1", "2", "3", "4", "5", "6", "7", "8", "9"}

DigitVal(c) ==
    CASE c = "0" -> 0 [] c = "1" -> 1 [] c = "2" -> 2 [] c = "3" -> 3
      [] c = "4" -> 4 [] c = "5" -> 5 [] c = "6" -> 6 [] c = "7" -> 7
      [] c = "8" -> 8 [] c = "9" -> 9

DigitChar(d) ==
    CASE d = 0 -> "0" [] d = 1 -> "1" [] d = 2 -> "2" [] d = 3 -> "3"
      [] d = 4 -> "4" [] d = 5 -> "5" [] d = 6 -> "6" [] d = 7 -> "7"
      [] d = 8 -> "8" [] d = 9 -> "9"

\* str.isdigit(): non-empty and every character a digit character; "sup2" is
\* U+00B2, a character str.isdigit() accepts and int() rejects
IsDigit(s) ==
    /\ Len(s) > 0
    /\ \A i \in 1..Len(s) : s[i] \in AsciiDigits \cup {"sup2"}

\* int(s) raises ValueError on this text
IntRaises(s) ==
    \/ Len(s) = 0
    \/ \E i \in 1..Len(s) : s[i] \notin AsciiDigits

RECURSIVE ParseDigits(_, _)
ParseDigits(s, acc) ==
    IF s = <<>> THEN acc
    ELSE ParseDigits(Tail(s), 10 * acc + DigitVal(Head(s)))

\* int(s) of a text of decimal digits
PyInt(s) == ParseDigits(s, 0)

RECURSIVE NatStr(_)
NatStr(n) ==
    IF n < 10 THEN <<DigitChar(n)>>
    ELSE NatStr(n \div 10) \o <<DigitChar(n % 10)>>

\* str(n) of an integer
PyStr(n) == IF n < 0 THEN <<"-">> \o NatStr(0 - n) ELSE NatStr(n)

\* str.startswith(c) for a one-character prefix
StartsWith(s, c) == Len(s) > 0 /\ s[1] = c

\* Python truthiness of an optional text
Truthy(s) == s # PyNone /\ s # <<>>

\* elem in list
InSeq(x, s) == \E i \in 1..Len(s) : s[i] = x

-----------------------------------------------------------------------------
(* Instructions, blocks, functions *)

Inst(opcode, operands, result) ==
    [opcode |-> opcode, operands |-> operands, result |-> result]

Block(name) ==
    [name |-> name, instructions |-> <<>>, predecessors |-> <<>>, successors |-> <<>>]

Function(name, return_type) ==
    [name |-> name, return_type |-> return_type, parameters |-> <<>>,
     basic_blocks |-> <<>>, local_vars |-> <<>>]

-----------------------------------------------------------------------------
(* The optimizer passes.  A pass over a block returns the block's           *)
(* instructions as it leaves them, the change records it appended, and      *)
(* whether it raised (the instructions are mutated in place, so what was    *)
(* rewritten before the exception stays rewritten).                         *)

ArithOps == {"add", "sub", "mul", "div", "mod"}

BlockResult(instructions, out, raised) ==
    [instructions |-> instructions, out |-> out, raised |-> raised]

\* a slip in the chain: the operands of sub the wrong way round
FoldValue_SubSwapped(opcode, val1, val2) ==
    CASE opcode = "add" -> [folds |-> TRUE, value |-> val1 + val2]
      [] opcode = "sub" -> [folds |-> TRUE, value |-> val2 - val1]
      [] opcode = "mul" -> [folds |-> TRUE, value |-> val1 * val2]
      [] opcode = "div" /\ val2 # 0 -> [folds |-> TRUE, value |-> val1 \div val2]
      [] opcode = "mod" /\ val2 # 0 -> [folds |-> TRUE, value |-> val1 % val2]
      [] OTHER -> [folds |-> FALSE, value |-> 0]

\* a slip in the chain: a zero divisor folded to 0 instead of skipped
FoldValue_ZeroDivisorFolds(opcode, val1, val2) ==
    CASE opcode = "add" -> [folds |-> TRUE, value |-> val1 + val2]
      [] opcode = "sub" -> [folds |-> TRUE, value |-> val1 - val2]
      [] opcode = "mul" -> [folds |-> TRUE, value |-> val1 * val2]
      [] opcode = "div" -> [folds |-> TRUE, value |-> IF val2 = 0 THEN 0 ELSE val1 \div val2]
      [] opcode = "mod" -> [folds |-> TRUE, value |-> IF val2 = 0 THEN 0 ELSE val1 % val2]
      [] OTHER -> [folds |-> FALSE, value |-> 0]

\* the if/elif chain that evaluates a foldable instruction; folds = FALSE is
\* the final else (a div or mod by zero): i += 1; continue
FoldValue(opcode, val1, val2) ==
    CASE opcode = "add" -> [folds |-> TRUE, value |-> val1 + val2]
      [] opcode = "sub" -> [folds |-> TRUE, value |-> val1 - val2]
      [] opcode = "mul" -> [folds |-> TRUE, value |-> val1 * val2]
      [] opcode = "div" /\ val2 # 0 -> [folds |-> TRUE, value |-> val1 \div val2]
      [] opcode = "mod" /\ val2 # 0 -> [folds |-> TRUE, value |-> val1 % val2]
      [] OTHER -> [folds |-> FALSE, value |-> 0]

\* the try block without its except clause: the ValueError of int() leaves
\* the pass
OperandTest_ValueErrorEscapes(op1, op2) ==
    IF op1 = PyNone \/ (IsDigit(op1) /\ op2 = PyNone) THEN "raise"
    ELSE IF ~(IsDigit(op1) /\ IsDigit(op2)) THEN "skip"
    ELSE IF IntRaises(op1) \/ IntRaises(op2) THEN "raise"
    ELSE "fold"

\* what the try block does with the two operands.  op1.isdigit() and
\* op2.isdigit() raises AttributeError on a None operand it gets to evaluate;
\* the ValueError of int(op1), int(op2) is caught (except ...: pass)
OperandTest(op1, op2) ==
    IF op1 = PyNone \/ (IsDigit(op1) /\ op2 = PyNone) THEN "raise"
    ELSE IF ~(IsDigit(op1) /\ IsDigit(op2)) THEN "skip"
    ELSE IF IntRaises(op1) \/ IntRaises(op2) THEN "skip"
    ELSE "fold"

RECURSIVE FoldBlock(_, _, _, _)
\* the while loop of _constant_folding over one block; a folded instruction
\* becomes {"opcode": "const", "operands":
\* [str(folded_val)], "result": result} and is recorded with its location
FoldBlock(instructions, i, loc, folded) ==
    IF i > Len(instructions) THEN BlockResult(instructions, folded, FALSE)
    ELSE
      LET inst == instructions[i] IN
      IF inst.opcode \notin ArithOps THEN FoldBlock(instructions, i + 1, loc, folded)
      ELSE IF Len(inst.operands) # 2
        THEN BlockResult(instructions, folded, TRUE)    \* op1, op2 = ... : ValueError
      ELSE
        LET op1 == inst.operands[1]
            op2 == inst.operands[2]
        IN
        IF OperandTest(op1, op2) = "raise"
          THEN BlockResult(instructions, folded, TRUE)
        ELSE IF OperandTest(op1, op2) = "skip"
          THEN FoldBlock(instructions, i + 1, loc, folded)
        ELSE
          LET f == FoldValue(inst.opcode, PyInt(op1), PyInt(op2)) IN
          IF ~f.folds THEN FoldBlock(instructions, i + 1, loc, folded)
          ELSE FoldBlock([instructions EXCEPT
                            ![i] = Inst("const", <<PyStr(f.value)>>, inst.result)],
                         i + 1, loc,
                         Append(folded, [original |-> inst, folded |-> PyStr(f.value),
                                         location |-> loc]))

\* a slip in the slice: instructions[i+2:] = [] keeps one dead instruction
TruncateAfter_OffByOne(instructions, i) ==
    SubSeq(instructions, 1, IF i + 1 <= Len(instructions) THEN i + 1 ELSE i)

\* instructions[i+1:] = []
TruncateAfter(instructions, i) == SubSeq(instructions, 1, i)

\* instructions.pop(i)
PopAt(instructions, i) ==
    SubSeq(instructions, 1, i - 1) \o SubSeq(instructions, i + 1, Len(instructions))

\* the forward scan started one instruction late: range(i + 2, len(instructions))
UsedLater_SkipsNext(instructions, i, result) ==
    \E j \in (i + 2)..Len(instructions) : InSeq(result, instructions[j].operands)

\* the forward scan: result in instructions[j].get("operands", []) for a j > i
UsedLater(instructions, i, result) ==
    \E j \in (i + 1)..Len(instructions) : InSeq(result, instructions[j].operands)

\* inst.get("result") and inst.get("result").startswith("t")
IsTempResult(inst) == Truthy(inst.result) /\ StartsWith(inst.result, "t")

RECURSIVE DceBlock(_, _, _, _)
DceBlock(instructions, i, loc, eliminated) ==
    IF i > Len(instructions) THEN BlockResult(instructions, eliminated, FALSE)
    ELSE
      LET inst == instructions[i] IN
      IF inst.opcode = "return" THEN
        LET removed_count == Len(instructions) - i IN
        IF removed_count > 0
          THEN BlockResult(TruncateAfter(instructions, i),
                           Append(eliminated,
                                  [type |-> "unreachable_after_return",
                                   count |-> removed_count, location |-> loc]),
                           FALSE)
          ELSE BlockResult(instructions, eliminated, FALSE)
      ELSE IF IsTempResult(inst) /\ ~UsedLater(instructions, i, inst.result)
        THEN DceBlock(PopAt(instructions, i), i, loc,
                      Append(eliminated,
                             [type |-> "unused_temp", temp |-> inst.result,
                              location |-> loc]))
      ELSE DceBlock(instructions, i + 1, loc, eliminated)

\* a slip in the comparison: the operands are not compared
FirstMatch_OpcodeOnly(instructions, i) ==
    LET matches == {j \in 1..(i - 1) : instructions[j].opcode = instructions[i].opcode}
    IN IF matches = {} THEN 0
       ELSE CHOOSE j \in matches : \A k \in matches : j <= k

\* for j in range(i): the first earlier instruction with the same opcode and
\* operands; 0 when there is none
FirstMatch(instructions, i) ==
    LET matches == {j \in 1..(i - 1) :
                      /\ instructions[j].opcode = instructions[i].opcode
                      /\ instructions[j].operands = instructions[i].operands}
    IN IF matches = {} THEN 0
       ELSE CHOOSE j \in matches : \A k \in matches : j <= k

RECURSIVE CseBlock(_, _, _, _)
\* the while loop of _common_subexpression_elimination over one block:
\* instructions[i] = {"opcode": "copy", "operands": [prev_result], "result": result}
CseBlock(instructions, i, loc, eliminated) ==
    IF i > Len(instructions) THEN BlockResult(instructions, eliminated, FALSE)
    ELSE
      LET inst == instructions[i]
          j == FirstMatch(instructions, i)
      IN
      IF inst.opcode \in ArithOps /\ j # 0
        THEN CseBlock([instructions EXCEPT
                         ![i] = Inst("copy", <<instructions[j].result>>, inst.result)],
                      i + 1, loc,
                      Append(eliminated,
                             [type |-> "common_subexpression", original |-> inst,
                              reused |-> instructions[j].result, location |-> loc]))
        ELSE CseBlock(instructions, i + 1, loc, eliminated)

BlockPass(pass, instructions, loc) ==
    CASE pass = "constant_folding" -> FoldBlock(instructions, 1, loc, <<>>)
      [] pass = "dead_code_elimination" -> DceBlock(instructions, 1, loc, <<>>)
      [] pass = "common_subexpression_elimination" -> CseBlock(instructions, 1, loc, <<>>)

PassResult(ir, out, raised) == [ir |-> ir, out |-> out, raised |-> raised]

\* for func in ir_code.get("functions", []): for block in func.get("basic_blocks", []):
RECURSIVE PassFrom(_, _, _, _, _)
PassFrom(pass, ir, fi, bi, out) ==
    IF fi > Len(ir.functions) THEN PassResult(ir, out, FALSE)
    ELSE
      LET func == ir.functions[fi] IN
      IF bi > Len(func.basic_blocks) THEN PassFrom(pass, ir, fi + 1, 1, out)
      ELSE
        LET block == func.basic_blocks[bi]
            \* location: f"{func.get('name')}.{block.get('name')}"
            r == BlockPass(pass, block.instructions, func.name \o <<".">> \o block.name)
            ir2 == [ir EXCEPT !.functions[fi].basic_blocks[bi].instructions = r.instructions]
        IN IF r.raised THEN PassResult(ir2, out \o r.out, TRUE)
           ELSE PassFrom(pass, ir2, fi, bi + 1, out \o r.out)

\* a slip in the loop body: the pass deletes as dead-code elimination does
ConstantFolding_Deletes(ir) == PassFrom("dead_code_elimination", ir, 1, 1, <<>>)

ConstantFolding(ir) == PassFrom("constant_folding", ir, 1, 1, <<>>)

DeadCodeElimination(ir) == PassFrom("dead_code_elimination", ir, 1, 1, <<>>)

CommonSubexpressionElimination(ir) ==
    PassFrom("common_subexpression_elimination", ir, 1, 1, <<>>)

\* a slip in the order: dead-code elimination called before constant folding
PassOrder_DceFirst ==
    <<"dead_code_elimination", "constant_folding", "common_subexpression_elimination">>

\* the order in which _apply_optimizations calls the passes
PassOrder ==
    <<"constant_folding", "dead_code_elimination", "common_subexpression_elimination">>

PassDescription(pass) ==
    CASE pass = "constant_folding" -> "Folded constant expressions"
      [] pass = "dead_code_elimination" -> "Removed unreachable code"
      [] pass = "common_subexpression_elimination" -> "Eliminated redundant expressions"

RunPass(pass, ir) ==
    CASE pass = "constant_folding" -> ConstantFolding(ir)
      [] pass = "dead_code_elimination" -> DeadCodeElimination(ir)
      [] pass = "common_subexpression_elimination" -> CommonSubexpressionElimination(ir)

RECURSIVE ApplyFrom(_, _, _, _)
\* the passes in order; optimizations.append({...}) when a pass returned a
\* non-empty list
ApplyFrom(order, k, ir, optimizations) ==
    IF k > Len(order) THEN PassResult(ir, optimizations, FALSE)
    ELSE
      LET r == RunPass(order[k], ir) IN
      IF r.raised THEN PassResult(r.ir, optimizations, TRUE)
      ELSE ApplyFrom(order, k + 1, r.ir,
                     IF r.out = <<>> THEN optimizations
                     ELSE Append(optimizations,
                                 [type |-> order[k],
                                  description |-> PassDescription(order[k]),
                                  details |-> r.out]))

ApplyOptimizations(ir) == ApplyFrom(PassOrder, 1, ir, <<>>)

-----------------------------------------------------------------------------
(* The name allocator *)

\* f"t{self.temp_counter}"
TempName(n) == <<"t">> \o PyStr(n)

\* f"block_{self.block_counter}"
BlockName(n) == <<"b", "l", "o", "c", "k", "_">> \o PyStr(n)

\* f"func_{self.function_counter}"
FuncName(n) == <<"f", "u", "n", "c", "_">> \o PyStr(n)

\* self.<counter> += 1; the name is built from the new value
Bump(counter) == counter + 1

\* _new_temp with the name built before the increment
NewTemp_NameFromOld(counter) == [counter |-> Bump(counter), name |-> TempName(counter)]

\* _new_block without self.block_counter += 1
NewBlock_NoIncrement(counter) == [counter |-> counter, name |-> BlockName(Bump(counter))]

\* _new_temp, _new_block, _new_function: the counter after the call and the
\* name returned
NewTemp(counter) == [counter |-> Bump(counter), name |-> TempName(Bump(counter))]

NewBlock(counter) == [counter |-> Bump(counter), name |-> BlockName(Bump(counter))]

NewFunction(counter) == [counter |-> Bump(counter), name |-> FuncName(Bump(counter))]

-----------------------------------------------------------------------------
(* AST nodes: records with a node_type and the fields of their kind.  A     *)
(* field that holds None (or is missing where the code reads it with        *)
(* .get(name)) is NoneNode.                                                 *)

NoneNode == [node_type |-> "NoneType"]

Null == <<"n", "u", "l", "l">>

Auto == <<"a", "u", "t", "o">>

Void == <<"v", "o", "i", "d">>

\* dict.get(key, default) on a record
Get(d, key, default) == IF key \in DOMAIN d THEN d[key] ELSE default

\* `not node`: None (an empty dict is not modelled apart from None)
Falsy(node) == node = NoneNode

-----------------------------------------------------------------------------
(* Expression lowering.  The result carries the temp_counter after the     *)
(* lowering, the optional instruction as a sequence of length 0 or 1, and   *)
(* whether the lowering raised.  A method is split where it holds a value   *)
(* in a local variable: the operator that computes the value hands it to    *)
(* the operator for the rest of the method.                                 *)

ExprResult(result, type, instruction, tc) ==
    [result |-> result, type |-> type, instruction |-> instruction,
     temp_counter |-> tc, raised |-> FALSE]

ExprRaised(tc) ==
    [result |-> PyNone, type |-> Auto, instruction |-> <<>>,
     temp_counter |-> tc, raised |-> TRUE]

\* {"result": self._new_temp(), "type": "auto"}, t being what _new_temp gave
TempOnly(t) == ExprResult(t.name, Auto, <<>>, t.counter)

\* result_temp = self._new_temp() and the instruction that writes it
TempResult(t, type, opcode, operands) ==
    ExprResult(t.name, type, <<Inst(opcode, operands, t.name)>>, t.counter)

\* _constant_to_ir: kind is the runtime kind of the literal's value; a float
\* is held as its whole part ival and the digits sval after the point
ConstantToIr(const_node, tc) ==
    CASE Get(const_node, "kind", "none") = "bool" ->
           ExprResult(IF const_node.ival = 1 THEN <<"T", "r", "u", "e">>
                      ELSE <<"F", "a", "l", "s", "e">>,
                      <<"b", "o", "o", "l">>, <<>>, tc)
      [] Get(const_node, "kind", "none") = "int" ->
           ExprResult(PyStr(const_node.ival), <<"i", "n", "t">>, <<>>, tc)
      [] Get(const_node, "kind", "none") = "float" ->
           ExprResult(PyStr(const_node.ival) \o <<".">> \o const_node.sval,
                      <<"f", "l", "o", "a", "t">>, <<>>, tc)
      [] Get(const_node, "kind", "none") = "str" ->
           ExprResult(<<"\"">> \o const_node.sval \o <<"\"">>, <<"s", "t", "r">>, <<>>, tc)
      [] Get(const_node, "kind", "none") = "none" -> ExprResult(Null, Void, <<>>, tc)
      [] OTHER -> TempOnly(NewTemp(tc))

\* _name_to_ir
NameToIr(name_node, type_info, tc) ==
    ExprResult(Get(name_node, "id", PyNone), Get(type_info, Get(name_node, "id", PyNone), Auto), <<>>, tc)

\* op_map.get(op.get("node_type", ""), "unknown")
OpMap(op_node_type) ==
    CASE op_node_type = "Add" -> "add"
      [] op_node_type = "Sub" -> "sub"
      [] op_node_type = "Mult" -> "mul"
      [] op_node_type = "Div" -> "div"
      [] op_node_type = "Mod" -> "mod"
      [] op_node_type = "Pow" -> "pow"
      [] op_node_type = "LShift" -> "shl"
      [] op_node_type = "RShift" -> "shr"
      [] op_node_type = "BitOr" -> "or"
      [] op_node_type = "BitXor" -> "xor"
      [] op_node_type = "BitAnd" -> "and"
      [] op_node_type = "FloorDiv" -> "floordiv"
      [] OTHER -> "unknown"

RECURSIVE ExpressionToIr(_, _, _)
RECURSIVE ElementsToIr(_, _, _, _, _)

\* results.append(e.get("result")) and on to the next element
ElementsNext(elements, k, type_info, results, e) ==
    IF e.raised THEN [results |-> results, temp_counter |-> e.temp_counter, raised |-> TRUE]
    ELSE ElementsToIr(elements, k + 1, type_info, e.temp_counter, Append(results, e.result))

\* for x in elements: results.append(self._expression_to_ir(x).get("result"))
ElementsToIr(elements, k, type_info, tc, results) ==
    IF k > Len(elements)
      THEN [results |-> results, temp_counter |-> tc, raised |-> FALSE]
      ELSE ElementsNext(elements, k, type_info, results,
                        ExpressionToIr(elements[k], type_info, tc))

\* _binop_to_ir with the operands of the instruction the wrong way round
BinopInst_OperandsSwapped(binop_node, left_result, right_ir) ==
    TempResult(NewTemp(right_ir.temp_counter), Auto,
               OpMap(Get(Get(binop_node, "op", <<>>), "node_type", "")),
               <<right_ir.result, left_result>>)

\* _binop_to_ir from opcode = op_map.get(op.get("node_type", ""), "unknown")
\* on; op is binop_node.get("op", {}), and op.get raises AttributeError when
\* the node holds None for op
BinopInst(binop_node, left_result, right_ir) ==
    IF right_ir.raised \/ Get(binop_node, "op", <<>>) = NoneNode
      THEN ExprRaised(right_ir.temp_counter)
      ELSE TempResult(NewTemp(right_ir.temp_counter), Auto,
                      OpMap(Get(Get(binop_node, "op", <<>>), "node_type", "")),
                      <<left_result, right_ir.result>>)

\* _binop_to_ir from right_ir = self._expression_to_ir(right, type_info) on
BinopRight(binop_node, type_info, left_ir) ==
    IF left_ir.raised THEN ExprRaised(left_ir.temp_counter)
    ELSE BinopInst(binop_node, left_ir.result,
                   ExpressionToIr(Get(binop_node, "right", NoneNode), type_info,
                                  left_ir.temp_counter))

\* _binop_to_ir
BinopToIr(binop_node, type_info, tc) ==
    BinopRight(binop_node, type_info,
               ExpressionToIr(Get(binop_node, "left", NoneNode), type_info, tc))

\* _call_to_ir from result_temp = self._new_temp() on; a holds the arguments
CallInst(func_name, a) ==
    IF a.raised THEN ExprRaised(a.temp_counter)
    ELSE TempResult(NewTemp(a.temp_counter), Auto, "call", <<func_name>> \o a.results)

\* _call_to_ir: func.get("node_type") raises AttributeError when func is None
CallToIr(call_node, type_info, tc) ==
    IF Get(call_node, "func", NoneNode) = NoneNode THEN ExprRaised(tc)
    ELSE CallInst(IF Get(call_node, "func", NoneNode).node_type = "Name" THEN Get(Get(call_node, "func", NoneNode), "id", PyNone)
                  ELSE <<"u", "n", "k", "n", "o", "w", "n">>,
                  ElementsToIr(Get(call_node, "args", <<>>), 1, type_info, tc, <<>>))

\* _list_to_ir from result_temp = self._new_temp() on
ListInst(a) ==
    IF a.raised THEN ExprRaised(a.temp_counter)
    ELSE TempResult(NewTemp(a.temp_counter),
                    <<"L", "i", "s", "t", "[", "a", "u", "t", "o", "]">>,
                    "create_list", a.results)

\* _list_to_ir
ListToIr(list_node, type_info, tc) ==
    ListInst(ElementsToIr(Get(list_node, "elts", <<>>), 1, type_info, tc, <<>>))

\* _dict_to_ir from result_temp = self._new_temp() on
DictInst(key_results, vs) ==
    IF vs.raised THEN ExprRaised(vs.temp_counter)
    ELSE TempResult(NewTemp(vs.temp_counter),
                    <<"D", "i", "c", "t", "[", "a", "u", "t", "o", ",", " ", "a", "u", "t", "o", "]">>,
                    "create_dict", key_results \o vs.results)

\* _dict_to_ir from the loop over the values on
DictValues(dict_node, type_info, ks) ==
    IF ks.raised THEN ExprRaised(ks.temp_counter)
    ELSE DictInst(ks.results,
                  ElementsToIr(Get(dict_node, "values", <<>>), 1, type_info, ks.temp_counter, <<>>))

\* _dict_to_ir: every key, then every value
DictToIr(dict_node, type_info, tc) ==
    DictValues(dict_node, type_info, ElementsToIr(Get(dict_node, "keys", <<>>), 1, type_info, tc, <<>>))

\* _expression_to_ir
ExpressionToIr(expr_node, type_info, tc) ==
    IF Falsy(expr_node) THEN ExprResult(Null, Auto, <<>>, tc)
    ELSE
      CASE expr_node.node_type = "Constant" -> ConstantToIr(expr_node, tc)
        [] expr_node.node_type = "Name" -> NameToIr(expr_node, type_info, tc)
        [] expr_node.node_type = "BinOp" -> BinopToIr(expr_node, type_info, tc)
        [] expr_node.node_type = "Call" -> CallToIr(expr_node, type_info, tc)
        [] expr_node.node_type = "List" -> ListToIr(expr_node, type_info, tc)
        [] expr_node.node_type = "Dict" -> DictToIr(expr_node, type_info, tc)
        [] OTHER -> TempOnly(NewTemp(tc))

-----------------------------------------------------------------------------
(* Statement and control-flow lowering.  The lowering state st holds the   *)
(* two counters lowering advances, the basic_blocks list of the function    *)
(* being built, and whether an exception has left the lowering.  Blocks are *)
(* Python objects mutated after they are appended, so a block is addressed  *)
(* by its index in basic_blocks; a block object that is created first and   *)
(* appended later (the loop blocks) is built in full and then appended.     *)

LowerState(tc, bc, blocks) ==
    [temp_counter |-> tc, block_counter |-> bc, blocks |-> blocks, raised |-> FALSE]

\* block.add_instruction(inst) on the block at index c
AddInstruction(st, c, inst) ==
    [st EXCEPT !.blocks[c].instructions = Append(@, inst)]

AddInstructions(st, c, insts) ==
    [st EXCEPT !.blocks[c].instructions = @ \o insts]

\* func_ir.add_basic_block(block)
AddBasicBlock(st, block) == [st EXCEPT !.blocks = Append(@, block)]

RaiseIn(st, tc) == [st EXCEPT !.temp_counter = tc, !.raised = TRUE]

\* the state once an expression has been lowered
After(st, tc) == [st EXCEPT !.temp_counter = tc]

\* the state once the blocks of a statement have been named
Named(st, bc) == [st EXCEPT !.block_counter = bc]

\* one more name from an allocator: names holds the counter and the names
\* given so far, in call order, new what the call returned
NextName(names, new) == [counter |-> new.counter, names |-> Append(names.names, new.name)]

RECURSIVE NewBlocks(_, _)
\* n calls of self._new_block() in a row
NewBlocks(counter, n) ==
    IF n = 0 THEN [counter |-> counter, names |-> <<>>]
    ELSE LET names == NewBlocks(counter, n - 1)
         IN NextName(names, NewBlock(names.counter))

RECURSIVE NewTemps(_, _)
\* n calls of self._new_temp() in a row
NewTemps(counter, n) ==
    IF n = 0 THEN [counter |-> counter, names |-> <<>>]
    ELSE LET names == NewTemps(counter, n - 1)
         IN NextName(names, NewTemp(names.counter))

IsNameNode(node) == node.node_type = "Name"

\* _process_assignment from the loop over the targets on; names holds the
\* targets that are Name nodes
AssignTargets(names, c, st, value_ir) ==
    IF value_ir.raised THEN RaiseIn(st, value_ir.temp_counter)
    ELSE AddInstructions(After(st, value_ir.temp_counter), c,
                         [k \in 1..Len(names) |->
                             Inst("store", <<value_ir.result, Get(names[k], "id", PyNone)>>, PyNone)])

\* _process_assignment: one store per Name target; the instruction that
\* computes the value (value_ir["instruction"]) is not appended
ProcessAssignment(assign_node, c, st, type_info) ==
    AssignTargets(SelectSeq(Get(assign_node, "targets", <<>>), IsNameNode), c, st,
                  ExpressionToIr(Get(assign_node, "value", NoneNode), type_info, st.temp_counter))

\* _process_return from return_inst = IRInstruction("return", [...]) on
ReturnValue(c, st, value_ir) ==
    IF value_ir.raised THEN RaiseIn(st, value_ir.temp_counter)
    ELSE AddInstruction(After(st, value_ir.temp_counter), c,
                        Inst("return", <<value_ir.result>>, PyNone))

\* _process_return
ProcessReturn(return_node, c, st, type_info) ==
    IF Falsy(Get(return_node, "value", NoneNode)) THEN AddInstruction(st, c, Inst("return", <<>>, PyNone))
    ELSE ReturnValue(c, st, ExpressionToIr(Get(return_node, "value", NoneNode), type_info, st.temp_counter))

\* the Expr branch of _process_statements without the nop
ExprNop_NothingAppended(c, st, expr_ir) ==
    IF expr_ir.raised THEN RaiseIn(st, expr_ir.temp_counter)
    ELSE After(st, expr_ir.temp_counter)

\* the Expr branch of _process_statements from if expr_ir.get("result") on
ExprNop(c, st, expr_ir) ==
    IF expr_ir.raised THEN RaiseIn(st, expr_ir.temp_counter)
    ELSE IF Truthy(expr_ir.result)
      THEN AddInstruction(After(st, expr_ir.temp_counter), c, Inst("nop", <<>>, PyNone))
      ELSE After(st, expr_ir.temp_counter)

\* the Expr branch of _process_statements: a nop when the expression has a
\* result; the expression's own instruction is not appended
ProcessExpr(stmt, c, st, type_info) ==
    ExprNop(c, st, ExpressionToIr(Get(stmt, "value", NoneNode), type_info, st.temp_counter))

RECURSIVE ProcessStatements(_, _, _)
RECURSIVE StatementLoop(_, _, _, _, _)
RECURSIVE ProcessIf(_, _, _)
RECURSIVE ProcessFor(_, _, _)
RECURSIVE ProcessWhile(_, _, _)

\* AddMergeBlock without func_ir.add_basic_block(merge_block)
AddMergeBlock_NotAdded(st, then_at, else_at, names) ==
    [st EXCEPT !.blocks[then_at].successors = <<names[3]>>,
               !.blocks[else_at].successors = <<names[3]>>]

\* the statements under "# Add merge block" of _process_if; names holds the
\* names of then_block, else_block and merge_block
AddMergeBlock(st, then_at, else_at, names) ==
    [st EXCEPT !.blocks = Append(@, [Block(names[3]) EXCEPT
                                       !.predecessors = <<names[1], names[2]>>]),
               !.blocks[then_at].successors = <<names[3]>>,
               !.blocks[else_at].successors = <<names[3]>>]

\* _process_if once the else branch is lowered
IfMerge(st, then_at, else_at, names) ==
    IF st.raised THEN st ELSE AddMergeBlock(st, then_at, else_at, names)

\* _process_if from if orelse: on; else_block is the last block of st
IfOrelse(if_node, st, then_at, type_info, names) ==
    IfMerge(IF Get(if_node, "orelse", <<>>) # <<>>
              THEN ProcessStatements(Get(if_node, "orelse", <<>>), st, type_info)
              ELSE st,
            then_at, Len(st.blocks), names)

\* _process_if from func_ir.add_basic_block(else_block) on
IfElse(if_node, st, then_at, type_info, names) ==
    IF st.raised THEN st
    ELSE IfOrelse(if_node, AddBasicBlock(st, Block(names[2])), then_at, type_info, names)

\* _process_if from self._process_statements(body, ...) on; then_block is
\* the last block of st
IfThen(if_node, st, type_info, names) ==
    IfElse(if_node, ProcessStatements(Get(if_node, "body", <<>>), st, type_info),
           Len(st.blocks), type_info, names)

\* the statements under "# Add conditional branch" of _process_if, on
\* current_block = func_ir.basic_blocks[-1], and the adding of then_block
IfBranch(st, test_result, names) ==
    [st EXCEPT !.blocks =
         Append([@ EXCEPT ![Len(st.blocks)] =
                    [@ EXCEPT !.instructions =
                                 Append(@, Inst("branch", <<test_result>>, PyNone)),
                              !.successors = <<names[1], names[2]>>]],
                Block(names[1]))]

\* _process_if from the three self._new_block() calls on
IfBlocks(if_node, st, type_info, test_result, b) ==
    IfThen(if_node, IfBranch(Named(st, b.counter), test_result, b.names), type_info, b.names)

\* _process_if once the test is lowered
IfTest(if_node, st, type_info, test_ir) ==
    IF test_ir.raised THEN RaiseIn(st, test_ir.temp_counter)
    ELSE IfBlocks(if_node, After(st, test_ir.temp_counter), type_info, test_ir.result,
                  NewBlocks(st.block_counter, 3))

\* _process_if
ProcessIf(if_node, st, type_info) ==
    IfTest(if_node, st, type_info, ExpressionToIr(Get(if_node, "test", NoneNode), type_info, st.temp_counter))

\* _process_for from "# Add blocks to function" on; names holds the names of
\* init_block, loop_block, body_block and exit_block, temps the results of
\* init_iter, has_next and get_next
ForBlocks(for_node, st, names, iter_result, temps) ==
    IF st.raised THEN st
    ELSE [st EXCEPT !.blocks = @ \o
            <<[Block(names[1]) EXCEPT
                 !.instructions = <<Inst("init_iter", <<iter_result>>, temps[1])>>,
                 !.successors = <<names[2]>>],
              [Block(names[2]) EXCEPT
                 !.instructions = <<Inst("has_next", <<temps[1]>>, temps[2])>>,
                 !.successors = <<names[3], names[4]>>],
              [Block(names[3]) EXCEPT
                 !.instructions =
                    IF Get(for_node, "target", NoneNode).node_type = "Name"
                      THEN <<Inst("get_next", <<temps[1]>>, temps[3]),
                             Inst("store", <<temps[3], Get(Get(for_node, "target", NoneNode), "id", PyNone)>>, PyNone)>>
                      ELSE <<Inst("get_next", <<temps[1]>>, temps[3])>>,
                 !.successors = <<names[2]>>],
              Block(names[4])>>]

\* _process_for from "# Assign to target" on: target.get("node_type")
\* raises AttributeError when the For node has no target
ForTarget(for_node, st, type_info, names, iter_result, t) ==
    IF Get(for_node, "target", NoneNode) = NoneNode THEN RaiseIn(st, t.counter)
    ELSE ForBlocks(for_node,
                   ProcessStatements(Get(for_node, "body", <<>>), After(st, t.counter), type_info),
                   names, iter_result, t.names)

\* _process_for once the iterable is lowered
ForIter(for_node, st, type_info, names, iter_ir) ==
    IF iter_ir.raised THEN RaiseIn(st, iter_ir.temp_counter)
    ELSE ForTarget(for_node, st, type_info, names, iter_ir.result,
                   NewTemps(iter_ir.temp_counter, 3))

\* _process_for from "# Initialize iterator" on
ForInit(for_node, st, type_info, b) ==
    ForIter(for_node, Named(st, b.counter), type_info, b.names,
            ExpressionToIr(Get(for_node, "iter", NoneNode), type_info, st.temp_counter))

\* _process_for
ProcessFor(for_node, st, type_info) ==
    ForInit(for_node, st, type_info, NewBlocks(st.block_counter, 4))

\* _process_while with body_block.successors = [exit_block.name]
WhileBlocks_BodyFallsThrough(st, names, test_result) ==
    IF st.raised THEN st
    ELSE [st EXCEPT !.blocks = @ \o
            <<[Block(names[1]) EXCEPT
                 !.instructions = <<Inst("branch", <<test_result>>, PyNone)>>,
                 !.successors = <<names[2], names[3]>>],
              [Block(names[2]) EXCEPT !.successors = <<names[3]>>],
              Block(names[3])>>]

\* _process_while from "# Add blocks to function" on; names holds the names
\* of test_block, body_block and exit_block
WhileBlocks(st, names, test_result) ==
    IF st.raised THEN st
    ELSE [st EXCEPT !.blocks = @ \o
            <<[Block(names[1]) EXCEPT
                 !.instructions = <<Inst("branch", <<test_result>>, PyNone)>>,
                 !.successors = <<names[2], names[3]>>],
              [Block(names[2]) EXCEPT !.successors = <<names[1]>>],
              Block(names[3])>>]

\* _process_while once the test is lowered
WhileTest(while_node, st, type_info, names, test_ir) ==
    IF test_ir.raised THEN RaiseIn(st, test_ir.temp_counter)
    ELSE WhileBlocks(ProcessStatements(Get(while_node, "body", <<>>),
                                       After(st, test_ir.temp_counter), type_info),
                     names, test_ir.result)

\* _process_while from "# Convert test to IR" on
WhileInit(while_node, st, type_info, b) ==
    WhileTest(while_node, Named(st, b.counter), type_info, b.names,
              ExpressionToIr(Get(while_node, "test", NoneNode), type_info, st.temp_counter))

\* _process_while
ProcessWhile(while_node, st, type_info) ==
    WhileInit(while_node, st, type_info, NewBlocks(st.block_counter, 3))

\* one statement of the loop of _process_statements
ProcessStatement(stmt, c, st, type_info) ==
    CASE stmt.node_type = "Assign" -> ProcessAssignment(stmt, c, st, type_info)
      [] stmt.node_type = "Return" -> ProcessReturn(stmt, c, st, type_info)
      [] stmt.node_type = "If" -> ProcessIf(stmt, st, type_info)
      [] stmt.node_type = "For" -> ProcessFor(stmt, st, type_info)
      [] stmt.node_type = "While" -> ProcessWhile(stmt, st, type_info)
      [] stmt.node_type = "Expr" -> ProcessExpr(stmt, c, st, type_info)
      [] OTHER -> st

\* the for stmt in statements loop of _process_statements; c is the index of
\* current_block, which the loop never reassigns
StatementLoop(statements, k, c, st, type_info) ==
    IF st.raised \/ k > Len(statements) THEN st
    ELSE StatementLoop(statements, k + 1, c,
                       ProcessStatement(statements[k], c, st, type_info), type_info)

\* current_block = BasicBlock(self._new_block());
\* func_ir.add_basic_block(current_block)
OpenBlock(st, b) == AddBasicBlock(Named(st, b.counter), Block(b.name))

\* the loop of _process_statements on current_block, the last block of st
StatementsIn(statements, st, type_info) ==
    StatementLoop(statements, 1, Len(st.blocks), st, type_info)

\* _process_statements
ProcessStatements(statements, st, type_info) ==
    StatementsIn(statements, OpenBlock(st, NewBlock(st.block_counter)), type_info)

-----------------------------------------------------------------------------
(* The module builder *)

RECURSIVE AnnotationToType(_)
\* _annotation_to_type
AnnotationToType(annotation) ==
    IF Falsy(annotation) THEN Auto
    ELSE
      CASE annotation.node_type = "Name" -> Get(annotation, "id", Auto)
        [] annotation.node_type = "Constant" -> Get(annotation, "sval", Auto)
        [] annotation.node_type = "Subscript" /\ annotation.value.node_type = "Name" ->
             IF Falsy(annotation.slice) THEN Get(annotation.value, "id", Auto)
             ELSE Get(annotation.value, "id", Auto) \o <<"[">>
                  \o AnnotationToType(annotation.slice) \o <<"]">>
        [] OTHER -> Auto

\* a return or parameter type of _process_function: the annotation when
\* there is one, else the entry of the type_info table for key, else default
TypeOf(annotated, type_info, key, default) ==
    IF ~Falsy(annotated) THEN AnnotationToType(annotated)
    ELSE IF key \in DOMAIN type_info THEN type_info[key]
    ELSE default

\* func_ir.to_dict() and the counters, st being the state after the body
FunctionResult(func_node, type_info, st) ==
    [func |-> [name |-> func_node.name,
               return_type |->
                  TypeOf(Get(func_node, "returns", NoneNode), type_info,
                         func_node.name \o <<".", "r", "e", "t", "u", "r", "n">>, Void),
               parameters |->
                  [k \in 1..Len(func_node.args.args) |->
                      [name |-> func_node.args.args[k].arg,
                       type |-> TypeOf(func_node.args.args[k].annotation, type_info,
                                       func_node.name \o <<".">> \o func_node.args.args[k].arg,
                                       Auto)]],
               basic_blocks |-> st.blocks,
               local_vars |-> <<>>],
     temp_counter |-> st.temp_counter,
     block_counter |-> st.block_counter,
     raised |-> st.raised]

\* _process_function: the function's dictionary and the counters after it
ProcessFunction(func_node, type_info, tc, bc) ==
    FunctionResult(func_node, type_info,
                   ProcessStatements(Get(func_node, "body", <<>>), LowerState(tc, bc, <<>>), type_info))

RECURSIVE GlobalVarsFrom(_, _, _, _, _, _)

\* _process_global_vars once the value is lowered for target t of node n
GlobalVarsNext(global_nodes, n, t, type_info, global_vars, value_ir) ==
    IF value_ir.raised
      THEN [global_vars |-> global_vars, temp_counter |-> value_ir.temp_counter,
            raised |-> TRUE]
      ELSE GlobalVarsFrom(global_nodes, n, t + 1, type_info, value_ir.temp_counter,
            Append(global_vars,
                   [name |-> Get(Get(global_nodes[n], "targets", <<>>)[t], "id", PyNone),
                    type |-> Get(type_info, Get(Get(global_nodes[n], "targets", <<>>)[t], "id", PyNone), Auto),
                    value |-> [result |-> value_ir.result, type |-> value_ir.type,
                               instruction |-> value_ir.instruction],
                    instruction |-> Inst("store", <<value_ir.result,
                                                    Get(Get(global_nodes[n], "targets", <<>>)[t], "id", PyNone)>>, PyNone)]))

\* _process_global_vars: the value is lowered once per Name target
GlobalVarsFrom(global_nodes, n, t, type_info, tc, global_vars) ==
    IF n > Len(global_nodes)
      THEN [global_vars |-> global_vars, temp_counter |-> tc, raised |-> FALSE]
    ELSE IF global_nodes[n].node_type # "Assign" \/ t > Len(Get(global_nodes[n], "targets", <<>>))
      THEN GlobalVarsFrom(global_nodes, n + 1, 1, type_info, tc, global_vars)
    ELSE IF Get(global_nodes[n], "targets", <<>>)[t].node_type # "Name"
      THEN GlobalVarsFrom(global_nodes, n, t + 1, type_info, tc, global_vars)
    ELSE GlobalVarsNext(global_nodes, n, t, type_info, global_vars,
                        ExpressionToIr(Get(global_nodes[n], "value", NoneNode), type_info, tc))

ProcessGlobalVars(global_nodes, type_info, tc) ==
    GlobalVarsFrom(global_nodes, 1, 1, type_info, tc, <<>>)

RECURSIVE FunctionsFrom(_, _, _, _, _, _)

\* ir["functions"].append(func_ir) and on to the next function
FunctionsNext(func_nodes, n, type_info, functions, f) ==
    IF f.raised
      THEN [functions |-> functions, temp_counter |-> f.temp_counter,
            block_counter |-> f.block_counter, raised |-> TRUE]
      ELSE FunctionsFrom(func_nodes, n + 1, type_info, f.temp_counter, f.block_counter,
                         Append(functions, f.func))

\* for func_node in functions: ir["functions"].append(self._process_function(...))
FunctionsFrom(func_nodes, n, type_info, tc, bc, functions) ==
    IF n > Len(func_nodes)
      THEN [functions |-> functions, temp_counter |-> tc, block_counter |-> bc,
            raised |-> FALSE]
      ELSE FunctionsNext(func_nodes, n, type_info, functions,
                         ProcessFunction(func_nodes[n], type_info, tc, bc))

IsFunctionDef(node) == node.node_type = "FunctionDef"

IsNotFunctionDef(node) == node.node_type # "FunctionDef"

NoIR == [functions |-> <<>>, global_vars |-> <<>>, instructions |-> <<>>,
         basic_blocks |-> <<>>, cfg |-> <<>>]

LowerResult(ir, tc, bc, raised) ==
    [ir |-> ir, temp_counter |-> tc, block_counter |-> bc, raised |-> raised]

\* _ast_to_ir once the functions are lowered
ModuleResult(global_vars, f) ==
    LowerResult([NoIR EXCEPT !.global_vars = global_vars, !.functions = f.functions],
                f.temp_counter, f.block_counter, f.raised)

\* _ast_to_ir from "# Process functions" on
ModuleFunctions(ast_node, type_info, bc, g) ==
    IF g.raised THEN LowerResult(NoIR, g.temp_counter, bc, TRUE)
    ELSE ModuleResult(g.global_vars,
                      FunctionsFrom(SelectSeq(Get(ast_node, "body", <<>>), IsFunctionDef), 1, type_info,
                                    g.temp_counter, bc, <<>>))

\* _ast_to_ir
AstToIr(ast_node, type_info, tc, bc) ==
    IF Falsy(ast_node) \/ ast_node.node_type # "Module" THEN LowerResult(NoIR, tc, bc, FALSE)
    ELSE ModuleFunctions(ast_node, type_info, bc,
                         ProcessGlobalVars(SelectSeq(Get(ast_node, "body", <<>>), IsNotFunctionDef),
                                           type_info, tc))

-----------------------------------------------------------------------------
(* generate *)

Counters(tc, bc, fc) ==
    [temp_counter |-> tc, block_counter |-> bc, function_counter |-> fc]

\* "ir": {}
EmptyDict == [k \in {} |-> k]

\* generate without the assignments under "# Reset counters"
ResetCounters_Skipped(gen) == gen

\* the three assignments under "# Reset counters"
ResetCounters(gen) == [k \in DOMAIN gen |-> 0]

\* the guard of the early return with a default of True for parse_success
UpstreamFailed_AbsentIsSuccess(ast_data, type_result) == ~Get(ast_data, "parse_success", TRUE)

\* the guard of the early return: not ast_data.get("parse_success", False)
UpstreamFailed(ast_data, type_result) == ~Get(ast_data, "parse_success", FALSE)

\* the generator's counters after a call and what the call returned
CallResult(gen, r) == [gen |-> gen, ret |-> r]

\* generate from the return statement on
GenerateReturn(gen, opt) ==
    IF opt.raised THEN CallResult(gen, [raised |-> TRUE, value |-> <<>>])
    ELSE CallResult(gen, [raised |-> FALSE,
                          value |-> [success |-> TRUE,
                                     ir |-> opt.ir,
                                     optimizations |-> opt.out,
                                     metadata |-> [temp_vars_used |-> gen.temp_counter,
                                                   basic_blocks |-> gen.block_counter,
                                                   functions |-> gen.function_counter]]])

\* generate from "# Apply optimizations" on
GenerateOptimize(gen, low) ==
    IF low.raised THEN CallResult(gen, [raised |-> TRUE, value |-> <<>>])
    ELSE GenerateReturn(gen, ApplyOptimizations(low.ir))

\* the generator's counters once _ast_to_ir has run
Lowered(gen, low) ==
    GenerateOptimize(Counters(low.temp_counter, low.block_counter, gen.function_counter), low)

\* generate from "# Generate IR from AST" on
GenerateLower(ast_data, type_result, gen) ==
    Lowered(gen, AstToIr(ast_data.ast, Get(type_result, "type_info", EmptyDict),
                         gen.temp_counter, gen.block_counter))

\* generate
Generate(ast_data, type_result, gen) ==
    IF UpstreamFailed(ast_data, type_result)
      THEN CallResult(gen, [raised |-> FALSE,
                            value |-> [success |-> FALSE,
                                       errors |-> Get(ast_data, "errors", <<>>),
                                       ir |-> EmptyDict,
                                       optimizations |-> <<>>]])
      ELSE GenerateLower(ast_data, type_result, ResetCounters(gen))

-----------------------------------------------------------------------------
(* Calls and what they return *)

Returned(value) == [raised |-> FALSE, value |-> value]

Raised == [raised |-> TRUE, value |-> <<>>]

-----------------------------------------------------------------------------
(* SpecOpt: the optimizer passes called directly on a hand-built module, as *)
(* tests/test_ir_generator.py does: one function "test" whose blocks        *)
(* block_1 and block_2 hold at most MaxInstrs instructions in all (block_2  *)
(* holds the last one or none).  The                                        *)
(* instruction at position i of the function writes temporary t<i>.         *)

\* the instructions a hand-built block is made of, for position i
PoolAt(i) ==
    { Inst("add", <<(<<"5">>), (<<"3">>)>>, TempName(i)),
      Inst("mul", <<(<<"2">>), (<<"4">>)>>, TempName(i)),
      Inst("div", <<(<<"5">>), (<<"0">>)>>, TempName(i)),
      Inst("mod", <<(<<"7">>), (<<"2">>)>>, TempName(i)),
      Inst("sub", <<(<<"3">>), (<<"5">>)>>, TempName(i)),
      Inst("add", <<(<<"a">>), (<<"b">>)>>, TempName(i)),
      Inst("add", <<(<<"3", ".", "1", "4">>), (<<"2">>)>>, TempName(i)),
      Inst("sub", <<(<<"-", "5">>), (<<"3">>)>>, TempName(i)),
      Inst("mul", <<(<<"\"", "a", "\"">>), (<<>>)>>, TempName(i)),
      Inst("div", <<(<<"sup2">>), (<<"2">>)>>, TempName(i)),
      Inst("mul", <<TempName(1), (<<"2">>)>>, TempName(i)),
      Inst("add", <<TempName(1), TempName(2)>>, TempName(i)),
      Inst("store", <<TempName(1), (<<"x">>)>>, PyNone),
      Inst("store", <<(<<"5">>), (<<"a">>)>>, PyNone),
      Inst("const", <<(<<"7">>)>>, (<<"x">>)),
      Inst("return", <<(<<"4", "2">>)>>, PyNone) }

RECURSIVE InstrSeqs(_)
InstrSeqs(n) ==
    IF n = 0 THEN {<<>>}
    ELSE {Append(s, x) : s \in InstrSeqs(n - 1), x \in PoolAt(n)}

\* the function "test(n)" with the first k instructions in block_1, the rest
\* in block_2, block_1 leading to block_2, beside one global variable g
HandBuilt(instrs, k) ==
    [functions |->
       <<[Function(<<"t", "e", "s", "t">>, Void) EXCEPT
            !.parameters = <<[name |-> <<"n">>, type |-> Auto]>>,
            !.basic_blocks =
               <<[Block(BlockName(1)) EXCEPT
                    !.instructions = SubSeq(instrs, 1, k),
                    !.successors = <<BlockName(2)>>],
                 [Block(BlockName(2)) EXCEPT
                    !.instructions = SubSeq(instrs, k + 1, Len(instrs)),
                    !.predecessors = <<BlockName(1)>>]>>]>>,
     global_vars |-> <<[name |-> <<"g">>, type |-> Auto]>>,
     instructions |-> <<>>, basic_blocks |-> <<>>, cfg |-> <<>>]

\* either every instruction is in block_1, or the last one is in block_2
IsHandBuilt(ir) ==
    \E n \in 0..MaxInstrs : \E instrs \in InstrSeqs(n) :
        \E k \in {j \in {n - 1, n} : j >= 0} : ir = HandBuilt(instrs, k)

InitOpt ==
    /\ temp_counter = 0
    /\ block_counter = 0
    /\ function_counter = 0
    /\ IsHandBuilt(ir_code)
    /\ op = "init"
    /\ arg = <<>>
    /\ ret = Returned(<<>>)
    /\ calls = 0
    /\ ast_tree = NoneNode
    /\ type_analysis = EmptyDict

CallPass(name, r) ==
    /\ calls < MaxPasses
    /\ calls' = calls + 1
    /\ op' = name
    /\ arg' = [ir |-> ir_code]
    /\ ir_code' = r.ir
    /\ ret' = IF r.raised THEN Raised ELSE Returned(r.out)
    /\ UNCHANGED <<temp_counter, block_counter, function_counter, ast_tree, type_analysis>>

CallConstantFolding == CallPass("_constant_folding", ConstantFolding(ir_code))

CallDeadCodeElimination ==
    CallPass("_dead_code_elimination", DeadCodeElimination(ir_code))

CallCommonSubexpressionElimination ==
    CallPass("_common_subexpression_elimination", CommonSubexpressionElimination(ir_code))

CallApplyOptimizations == CallPass("_apply_optimizations", ApplyOptimizations(ir_code))

NextOpt ==
    \/ CallConstantFolding
    \/ CallDeadCodeElimination
    \/ CallCommonSubexpressionElimination
    \/ CallApplyOptimizations

SpecOpt == InitOpt /\ [][NextOpt]_vars

-----------------------------------------------------------------------------
(* The inputs of the builder *)

\* an AST node as the parser's _ast_to_dict emits it: node_type and the fields
Node(node_type, fields) == ("node_type" :> node_type) @@ fields

\* the parser's result for a file that parsed
Parsed(ast) == [ast |-> ast, parse_success |-> TRUE, errors |-> <<>>]

\* the analyzer's result for a tree it analysed
Analyzed(table) == [success |-> TRUE, type_info |-> table]

Name(id) == Node("Name", [id |-> id])

\* x = a + 1
AssignX ==
    Node("Assign",
         [targets |-> <<Name(<<"x">>)>>,
          value |-> Node("BinOp",
                         [left |-> Name(<<"a">>), op |-> Node("Add", <<>>),
                          right |-> Node("Constant",
                                         [kind |-> "int", ival |-> 1, sval |-> <<>>])])])

\* return x
ReturnX == Node("Return", [value |-> Name(<<"x">>)])

\* range(n)
RangeN ==
    Node("Call", [func |-> Name(<<"r", "a", "n", "g", "e">>), args |-> <<Name(<<"n">>)>>])

If(test, body, orelse) == Node("If", [test |-> test, body |-> body, orelse |-> orelse])

For(target, iter, body) == Node("For", [target |-> target, iter |-> iter, body |-> body])

While(test, body) == Node("While", [test |-> test, body |-> body])

\* def name(n): body, with the annotation given for n and for the result
Def(name, annotation, body) ==
    Node("FunctionDef",
         [name |-> name,
          args |-> [args |-> <<Node("arg", [arg |-> <<"n">>, annotation |-> annotation])>>],
          body |-> body,
          returns |-> annotation])

Module(body) == Node("Module", [body |-> body])

\* statement lists without a compound statement
Leaves == { <<>>, <<AssignX>>, <<ReturnX>>, <<ReturnX, AssignX>> }

\* statement lists that nest the statement list b one level down; Compare
\* is a node kind _expression_to_ir has no branch for
Nest(b) ==
    { <<If(Name(<<"c">>), b, <<>>)>>,
      <<If(Node("Compare", <<>>), <<AssignX>>, b)>>,
      <<For(Name(<<"i">>), RangeN, b)>>,
      <<While(Node("Compare", <<>>), b)>>,
      <<AssignX, If(Name(<<"c">>), b, <<>>), ReturnX>>,
      <<While(Name(<<"c">>), b), For(Name(<<"i">>), Name(<<"n">>), <<AssignX>>)>> }

RECURSIVE Bodies(_)
\* the function bodies nested to depth d at most
Bodies(d) ==
    IF d = 0 THEN Leaves
    ELSE Leaves \cup UNION {Nest(b) : b \in Bodies(d - 1)}

\* the analyzer's table for f
TableF == [k \in {<<"x">>, <<"f", ".", "n">>} |-> <<"i", "n", "t">>]

\* a module of one function f(n) without annotations
ProgramF(body) == Module(<<Def(<<"f">>, NoneNode, body)>>)

-----------------------------------------------------------------------------
(* The calls a pipeline or a test makes on one generator *)

Generator == Counters(temp_counter, block_counter, function_counter)

\* IRGenerator.__init__, before any call
NewGenerator ==
    /\ temp_counter = 0
    /\ block_counter = 0
    /\ function_counter = 0
    /\ ir_code = NoIR
    /\ op = "init"
    /\ arg = <<>>
    /\ ret = Returned(<<>>)
    /\ calls = 0

\* the generator and the caller once generate has ended as r says
GenerateReturns(r) ==
    /\ temp_counter' = r.gen.temp_counter
    /\ block_counter' = r.gen.block_counter
    /\ function_counter' = r.gen.function_counter
    /\ ret' = r.ret

\* ir_code = self.ir_generator.generate(ast_tree, type_info)
CallGenerate ==
    /\ calls < MaxCalls
    /\ calls' = calls + 1
    /\ op' = "generate"
    /\ arg' = [ast_data |-> ast_tree, type_info |-> type_analysis]
    /\ GenerateReturns(Generate(ast_tree, type_analysis, Generator))
    /\ UNCHANGED <<ir_code, ast_tree, type_analysis>>

\* the generator and the caller once _ast_to_ir has ended as r says
AstToIrReturns(r) ==
    /\ temp_counter' = r.temp_counter
    /\ block_counter' = r.block_counter
    /\ ret' = IF r.raised THEN Raised ELSE Returned(r.ir)

\* generator._ast_to_ir(ast, table), called directly as the unit tests do
CallAstToIr ==
    /\ calls < MaxCalls
    /\ "ast" \in DOMAIN ast_tree
    /\ "type_info" \in DOMAIN type_analysis
    /\ calls' = calls + 1
    /\ op' = "_ast_to_ir"
    /\ arg' = [ast_node |-> ast_tree.ast, type_info |-> type_analysis.type_info]
    /\ AstToIrReturns(AstToIr(ast_tree.ast, type_analysis.type_info,
                              temp_counter, block_counter))
    /\ UNCHANGED <<function_counter, ir_code, ast_tree, type_analysis>>

\* generator._new_temp()
CallNewTemp ==
    /\ calls < MaxCalls
    /\ calls' = calls + 1
    /\ op' = "_new_temp"
    /\ arg' = <<>>
    /\ temp_counter' = NewTemp(temp_counter).counter
    /\ ret' = Returned(NewTemp(temp_counter).name)
    /\ UNCHANGED <<block_counter, function_counter, ir_code, ast_tree, type_analysis>>

\* generator._new_block()
CallNewBlock ==
    /\ calls < MaxCalls
    /\ calls' = calls + 1
    /\ op' = "_new_block"
    /\ arg' = <<>>
    /\ block_counter' = NewBlock(block_counter).counter
    /\ ret' = Returned(NewBlock(block_counter).name)
    /\ UNCHANGED <<temp_counter, function_counter, ir_code, ast_tree, type_analysis>>

\* generator._new_function()
CallNewFunction ==
    /\ calls < MaxCalls
    /\ calls' = calls + 1
    /\ op' = "_new_function"
    /\ arg' = <<>>
    /\ function_counter' = NewFunction(function_counter).counter
    /\ ret' = Returned(NewFunction(function_counter).name)
    /\ UNCHANGED <<temp_counter, block_counter, ir_code, ast_tree, type_analysis>>

\* the generator and the caller once _binop_to_ir has ended as r says
BinopToIrReturns(binop_node, r) ==
    /\ calls < MaxCalls
    /\ calls' = calls + 1
    /\ op' = "_binop_to_ir"
    /\ arg' = [binop_node |-> binop_node, type_info |-> TableF]
    /\ temp_counter' = r.temp_counter
    /\ ret' = IF r.raised THEN Raised
              ELSE Returned([result |-> r.result, type |-> r.type,
                             instruction |-> r.instruction])
    /\ UNCHANGED <<block_counter, function_counter, ir_code, ast_tree, type_analysis>>

\* generator._binop_to_ir(binop_node, type_info), called directly as the unit
\* tests do: a <operator> 1 for every operator of the table, for one the
\* table does not hold and for a node without op, and left + right for
\* operands that are a name, a literal, a binary operation, a call, a node
\* kind without a branch in _expression_to_ir, and None
CallBinopToIr ==
    LET Lit1 == Node("Constant", [kind |-> "int", ival |-> 1, sval |-> <<>>])
        BinOp(left, operator, right) ==
            Node("BinOp", [left |-> left, op |-> Node(operator, <<>>), right |-> right])
        Operands == { Name(<<"a">>), Lit1, BinOp(Name(<<"a">>), "Mult", Lit1), RangeN,
                      Node("Compare", <<>>), NoneNode }
        Operators == { "Add", "Sub", "Mult", "Div", "Mod", "Pow", "LShift", "RShift",
                       "BitOr", "BitXor", "BitAnd", "FloorDiv", "MatMult" }
    IN \E binop_node \in
             {BinOp(Name(<<"a">>), operator, Lit1) : operator \in Operators}
             \cup {BinOp(left, "Add", right) : left \in Operands, right \in Operands}
             \cup {Node("BinOp", [left |-> Name(<<"a">>), right |-> Lit1])} :
          BinopToIrReturns(binop_node, BinopToIr(binop_node, TableF, temp_counter))

-----------------------------------------------------------------------------
(* SpecExpr: the expression lowering called directly on a generator that   *)
(* has allocated temporaries before.                                        *)

InitExpr ==
    /\ NewGenerator
    /\ ast_tree = NoneNode
    /\ type_analysis = EmptyDict

NextExpr ==
    \/ CallBinopToIr
    \/ CallNewTemp

SpecExpr == InitExpr /\ [][NextExpr]_vars

-----------------------------------------------------------------------------
(* SpecLower: one generator lowers one program of the family, through      *)
(* generate and through _ast_to_ir.                                         *)

\* module-level assignments of a literal constant:  x = 5,  flag = True,
\* s = "hi",  n = None,  a = b = 0,  pi = 3.14  and the annotated  y: int = 7
GlobalStatements ==
    LET Constant(kind, ival, sval) ==
            Node("Constant", [kind |-> kind, ival |-> ival, sval |-> sval])
        Assign(targets, value) == Node("Assign", [targets |-> targets, value |-> value])
    IN { Assign(<<Name(<<"x">>)>>, Constant("int", 5, <<>>)),
         Assign(<<Name(<<"f", "l", "a", "g">>)>>, Constant("bool", 1, <<>>)),
         Assign(<<Name(<<"s">>)>>, Constant("str", 0, <<"h", "i">>)),
         Assign(<<Name(<<"n">>)>>, Constant("none", 0, <<>>)),
         Assign(<<Name(<<"a">>), Name(<<"b">>)>>, Constant("int", 0, <<>>)),
         Assign(<<Name(<<"p", "i">>)>>, Constant("float", 3, <<"1", "4">>)),
         Node("AnnAssign", [target |-> Name(<<"y">>),
                            annotation |-> Name(<<"i", "n", "t">>),
                            value |-> Constant("int", 7, <<>>),
                            simple |-> 1]) }

\* the modules of the family: one function f(n) for every body, x = a + 1
\* followed by two functions f(n) and g(n: int) -> int with the same body,
\* the modules of at most two module-level literal assignments, and one
\* function whose statement list mixes a For, an If, a While, an If and a
\* Return, and two functions with the expression statement range(n)
Programs ==
    {ProgramF(body) : body \in Bodies(MaxDepth)}
    \cup {ProgramF(<<For(Name(<<"i">>), RangeN, <<AssignX>>),
                     If(Name(<<"c">>), <<ReturnX>>, <<>>),
                     While(Name(<<"c">>), <<AssignX>>),
                     If(Name(<<"c">>), <<>>, <<>>),
                     ReturnX>>),
          ProgramF(<<AssignX, Node("Expr", [value |-> RangeN]), ReturnX>>),
          ProgramF(<<If(Name(<<"c">>), <<Node("Expr", [value |-> RangeN])>>, <<>>)>>)}
    \cup {Module(<<AssignX, Def(<<"f">>, NoneNode, body),
                   Def(<<"g">>, Name(<<"i", "n", "t">>), body)>>) :
             body \in Bodies(MaxDepth - 1)}
    \cup {Module(<<>>)}
    \cup {Module(<<g>>) : g \in GlobalStatements}
    \cup {Module(<<g, h>>) : g \in GlobalStatements, h \in GlobalStatements}

InitLower ==
    /\ NewGenerator
    /\ \E program \in Programs : ast_tree = Parsed(program)
    /\ type_analysis = Analyzed(TableF)

NextLower ==
    \/ CallGenerate
    \/ CallAstToIr

SpecLower == InitLower /\ [][NextLower]_vars

-----------------------------------------------------------------------------
(* Spec: the life of one generator in a pipeline that parses and analyses  *)
(* one file after another and hands the two results to generate.           *)

\* def f(n): if c: x = a + 1 / for i in range(n): return x
SmallF ==
    ProgramF(<<If(Name(<<"c">>), <<AssignX>>, <<>>), For(Name(<<"i">>), RangeN, <<ReturnX>>)>>)

\* the results of the two upstream stages for the files of the pipeline
Corpus ==
    { \* the file does not parse; the analyzer passes the errors on
      [ast_tree |-> [ast |-> NoneNode, parse_success |-> FALSE, errors |-> <<"Parse error">>],
       type_analysis |-> [success |-> FALSE, errors |-> <<"Parse error">>,
                          type_info |-> EmptyDict]],
      \* a failed parse as tests/test_ir_generator.py hands it over
      [ast_tree |-> [parse_success |-> FALSE, errors |-> <<"Parse error">>],
       type_analysis |-> EmptyDict],
      \* a result without parse_success and without errors
      [ast_tree |-> [ast |-> SmallF], type_analysis |-> Analyzed(TableF)],
      \* an empty module
      [ast_tree |-> Parsed(Module(<<>>)), type_analysis |-> Analyzed(EmptyDict)],
      [ast_tree |-> Parsed(SmallF), type_analysis |-> Analyzed(TableF)],
      \* x = a + 1 at module level, then f(n: int) -> int and g(n)
      [ast_tree |-> Parsed(Module(<<AssignX,
                                    Def(<<"f">>, Name(<<"i", "n", "t">>),
                                        <<While(Node("Compare", <<>>), <<AssignX>>), ReturnX>>),
                                    Def(<<"g">>, NoneNode, <<ReturnX, AssignX>>)>>)),
       type_analysis |-> Analyzed(TableF)],
      \* a For node without a target
      [ast_tree |-> Parsed(ProgramF(<<Node("For", [iter |-> RangeN, body |-> <<>>])>>)),
       type_analysis |-> Analyzed(TableF)],
      \* an expression statement that is a Call node without func
      [ast_tree |-> Parsed(ProgramF(<<Node("Expr", [value |-> Node("Call", [args |-> <<>>])])>>)),
       type_analysis |-> Analyzed(TableF)],
      \* an If without body and orelse, an Assign without value, an Assign of a
      \* BinOp without op, the call range(n) as a statement, a While without test
      \* and body, and a Return without value
      [ast_tree |-> Parsed(ProgramF(<<Node("If", [test |-> Name(<<"c">>)]),
                                      Node("Assign", [targets |-> <<Name(<<"x">>)>>]),
                                      Node("Assign",
                                           [targets |-> <<Name(<<"y">>)>>,
                                            value |-> Node("BinOp", [left |-> Name(<<"a">>),
                                                                     right |-> Name(<<"b">>)])]),
                                      Node("Expr", [value |-> RangeN]),
                                      Node("While", <<>>),
                                      Node("Return", <<>>)>>)),
       type_analysis |-> Analyzed(TableF)],
      \* the file parses and the analysis of it fails
      [ast_tree |-> Parsed(SmallF),
       type_analysis |-> [success |-> FALSE, errors |-> <<"Type error">>,
                          type_info |-> EmptyDict]] }

\* steps 1 and 2 of Transpiler.transpile
ParseFile ==
    /\ \E file \in Corpus :
          /\ ast_tree' = file.ast_tree
          /\ type_analysis' = file.type_analysis
    /\ UNCHANGED <<temp_counter, block_counter, function_counter, ir_code, op, arg, ret, calls>>

Init ==
    /\ NewGenerator
    /\ \E file \in Corpus :
          /\ ast_tree = file.ast_tree
          /\ type_analysis = file.type_analysis

Next ==
    \/ ParseFile
    \/ CallGenerate
    \/ CallNewTemp
    \/ CallNewBlock
    \/ CallNewFunction

Spec == Init /\ [][Next]_vars

-----------------------------------------------------------------------------
(* What the claims about the optimizer passes are stated in *)

\* decimal integer literal text
IntLiteral(s) == Len(s) > 0 /\ \A i \in 1..Len(s) : s[i] \in AsciiDigits

\* both operands of a binary instruction are integer literal text
LiteralPair(inst) ==
    /\ inst.opcode \in ArithOps
    /\ Len(inst.operands) = 2
    /\ IntLiteral(inst.operands[1])
    /\ IntLiteral(inst.operands[2])

ZeroDivisor(inst) ==
    /\ inst.opcode \in {"div", "mod"}
    /\ Len(inst.operands) = 2
    /\ IntLiteral(inst.operands[2])
    /\ PyInt(inst.operands[2]) = 0

\* the integer the instruction denotes (floor division and modulus)
Denotes(inst) ==
    LET a == PyInt(inst.operands[1])
        b == PyInt(inst.operands[2])
    IN CASE inst.opcode = "add" -> a + b
         [] inst.opcode = "sub" -> a - b
         [] inst.opcode = "mul" -> a * b
         [] inst.opcode = "div" -> a \div b
         [] inst.opcode = "mod" -> a - b * (a \div b)

\* every instruction of a module with its place, in function, block and
\* instruction order
RECURSIVE FlatFrom(_, _, _)
FlatFrom(ir, fi, bi) ==
    IF fi > Len(ir.functions) THEN <<>>
    ELSE
      LET func == ir.functions[fi] IN
      IF bi > Len(func.basic_blocks) THEN FlatFrom(ir, fi + 1, 1)
      ELSE
        LET block == func.basic_blocks[bi] IN
        [i \in 1..Len(block.instructions) |->
            [fi |-> fi, bi |-> bi, i |-> i, inst |-> block.instructions[i],
             loc |-> func.name \o <<".">> \o block.name]]
        \o FlatFrom(ir, fi, bi + 1)

Flat(ir) == FlatFrom(ir, 1, 1)

BlockIds(ir) ==
    {<<fi, bi>> : fi \in 1..Len(ir.functions), bi \in 1..2} \cap
    {id \in (1..Len(ir.functions)) \X (1..2) :
        id[2] <= Len(ir.functions[id[1]].basic_blocks)}

InstrsOf(ir, id) == ir.functions[id[1]].basic_blocks[id[2]].instructions

LocOf(ir, id) ==
    ir.functions[id[1]].name \o <<".">> \o ir.functions[id[1]].basic_blocks[id[2]].name

\* a module differs from another at most in its blocks' instructions
SameFrame(ir1, ir2) ==
    /\ Len(ir1.functions) = Len(ir2.functions)
    /\ \A fi \in 1..Len(ir1.functions) :
          Len(ir1.functions[fi].basic_blocks) = Len(ir2.functions[fi].basic_blocks)

MapSeq(s, F(_)) == [k \in 1..Len(s) |-> F(s[k])]

Count(s, P(_)) == Cardinality({k \in 1..Len(s) : P(s[k])})

\* the first index of a return in a block, 0 when there is none
FirstReturn(instrs) ==
    LET rs == {i \in 1..Len(instrs) : instrs[i].opcode = "return"}
    IN IF rs = {} THEN 0 ELSE CHOOSE i \in rs : \A k \in rs : i <= k

BlockOne(ir) == ir.functions[1].basic_blocks[1].instructions

-----------------------------------------------------------------------------
(* C2 *)

FoldedAs(before, after) ==
    /\ after.opcode = "const"
    /\ after.result = before.result
    /\ after.operands = <<PyStr(Denotes(before))>>

FoldedInPlace(P(_)) ==
    /\ SameFrame(arg.ir, ir_code)
    /\ \A id \in BlockIds(arg.ir) :
          /\ Len(InstrsOf(ir_code, id)) = Len(InstrsOf(arg.ir, id))
          /\ \A i \in 1..Len(InstrsOf(arg.ir, id)) :
                P(InstrsOf(arg.ir, id)[i]) =>
                    FoldedAs(InstrsOf(arg.ir, id)[i], InstrsOf(ir_code, id)[i])

FoldRecords(P(_)) ==
    LET Hit(e) == P(e.inst)
        Rec(e) == [original |-> e.inst, folded |-> PyStr(Denotes(e.inst)),
                   location |-> e.loc]
    IN MapSeq(SelectSeq(Flat(arg.ir), Hit), Rec)

\* C2 as stated: constant folding rewrites EVERY add/sub/mul/div/mod
\* instruction whose two operands are integer literal text into a const
\* instruction holding the result, with the same result name.
C2_FoldsEveryLiteralPair ==
    op = "_constant_folding" =>
        /\ FoldedInPlace(LiteralPair)
        /\ ret.value = FoldRecords(LiteralPair)

FoldableInst(inst) == LiteralPair(inst) /\ ~ZeroDivisor(inst)

\* C2, amended: constant folding rewrites every add/sub/mul/div/mod
\* instruction whose two operands are integer literal text and, for div and
\* mod, whose second operand is not zero, into a const instruction with the
\* integer result as its single operand and the same result name, and
\* returns exactly one record {original, folded, location} per rewritten
\* instruction, in block order.
C2_FoldsLiteralPairsWithNonzeroDivisor ==
    op = "_constant_folding" =>
        /\ ~ret.raised
        /\ FoldedInPlace(FoldableInst)
        /\ ret.value = FoldRecords(FoldableInst)

\* add(5,3) -> t1 and mul(2,4) -> t2 in one block were both folded to "8"
C2_Witness ==
    /\ op = "_constant_folding"
    /\ BlockOne(arg.ir) = <<Inst("add", <<(<<"5">>), (<<"3">>)>>, TempName(1)),
                            Inst("mul", <<(<<"2">>), (<<"4">>)>>, TempName(2))>>
    /\ BlockOne(ir_code) = <<Inst("const", <<(<<"8">>)>>, TempName(1)),
                             Inst("const", <<(<<"8">>)>>, TempName(2))>>
    /\ Len(ret.value) = 2
    /\ ret.value[1].folded = <<"8">>
    /\ ret.value[2].folded = <<"8">>

-----------------------------------------------------------------------------
(* C6 *)

\* C6: constant folding leaves a div or mod whose second operand is the
\* integer literal 0 exactly as it was, records no change for it, does not
\* raise, and goes on to fold the instructions that follow it in the block.
C6_ZeroDivisorLeftUnfolded ==
    op = "_constant_folding" =>
        /\ ~ret.raised
        /\ \A id \in BlockIds(arg.ir) :
              \A i \in 1..Len(InstrsOf(arg.ir, id)) :
                 ZeroDivisor(InstrsOf(arg.ir, id)[i]) =>
                    /\ i <= Len(InstrsOf(ir_code, id))
                    /\ InstrsOf(ir_code, id)[i] = InstrsOf(arg.ir, id)[i]
                    /\ \A k \in 1..Len(ret.value) :
                          ret.value[k].original # InstrsOf(arg.ir, id)[i]
                    /\ \A j \in (i + 1)..Len(InstrsOf(arg.ir, id)) :
                          FoldableInst(InstrsOf(arg.ir, id)[j]) =>
                             /\ j <= Len(InstrsOf(ir_code, id))
                             /\ InstrsOf(ir_code, id)[j].opcode = "const"

\* div(5,0) was left alone and the add(5,3) after it was folded
C6_Witness ==
    /\ op = "_constant_folding"
    /\ ~ret.raised
    /\ Len(BlockOne(arg.ir)) >= 2
    /\ BlockOne(arg.ir)[1] = Inst("div", <<(<<"5">>), (<<"0">>)>>, TempName(1))
    /\ BlockOne(arg.ir)[2] = Inst("add", <<(<<"5">>), (<<"3">>)>>, TempName(2))
    /\ BlockOne(ir_code)[1] = BlockOne(arg.ir)[1]
    /\ BlockOne(ir_code)[2] = Inst("const", <<(<<"8">>)>>, TempName(2))
    /\ Len(ret.value) = 1

-----------------------------------------------------------------------------
(* C3 *)

IsUnreachableEntry(e, loc) ==
    e.type = "unreachable_after_return" /\ e.location = loc

\* C3: dead-code elimination, for every block that contains a return,
\* deletes every instruction after the first return of the block, so that
\* the return is the block's last (and only) return afterwards, and records
\* exactly one {unreachable_after_return, count, location} entry whose count
\* is the number of instructions deleted after the return; when nothing
\* follows the return, no such entry is recorded.
C3_DeadCodeAfterReturnRemoved ==
    op = "_dead_code_elimination" =>
        /\ ~ret.raised
        /\ SameFrame(arg.ir, ir_code)
        /\ \A id \in BlockIds(arg.ir) :
              LET before == InstrsOf(arg.ir, id)
                  after == InstrsOf(ir_code, id)
                  r == FirstReturn(before)
                  IsEntry(e) == IsUnreachableEntry(e, LocOf(arg.ir, id))
                  entries == SelectSeq(ret.value, IsEntry)
              IN IF r = 0 THEN entries = <<>>
                 ELSE /\ Len(after) >= 1
                      /\ after[Len(after)] = before[r]
                      /\ \A k \in 1..(Len(after) - 1) :
                            /\ after[k].opcode # "return"
                            /\ InSeq(after[k], SubSeq(before, 1, r - 1))
                      /\ IF Len(before) = r THEN entries = <<>>
                         ELSE /\ Len(entries) = 1
                              /\ entries[1].count = Len(before) - r

\* [return 42, add(5,3) -> t2, store(t1, x)] left one return and one entry
\* with count 2
C3_Witness ==
    /\ op = "_dead_code_elimination"
    /\ BlockOne(arg.ir) = <<Inst("return", <<(<<"4", "2">>)>>, PyNone),
                            Inst("add", <<(<<"5">>), (<<"3">>)>>, TempName(2)),
                            Inst("store", <<TempName(1), (<<"x">>)>>, PyNone)>>
    /\ BlockOne(ir_code) = <<Inst("return", <<(<<"4", "2">>)>>, PyNone)>>
    /\ ret.value = <<[type |-> "unreachable_after_return", count |-> 2,
                      location |-> <<"t", "e", "s", "t", ".">> \o BlockName(1)]>>

-----------------------------------------------------------------------------
(* C4 *)

\* the earlier instructions of the block with the same opcode and operands
EarlierSame(instrs, i) ==
    {j \in 1..(i - 1) : /\ instrs[j].opcode = instrs[i].opcode
                        /\ instrs[j].operands = instrs[i].operands}

Least(S) == CHOOSE j \in S : \A k \in S : j <= k

Redundant(instrs, i) ==
    instrs[i].opcode \in ArithOps /\ EarlierSame(instrs, i) # {}

CseRecords ==
    LET Hit(e) == Redundant(InstrsOf(arg.ir, <<e.fi, e.bi>>), e.i)
        Rec(e) ==
          LET instrs == InstrsOf(arg.ir, <<e.fi, e.bi>>) IN
          [type |-> "common_subexpression", original |-> e.inst,
           reused |-> instrs[Least(EarlierSame(instrs, e.i))].result,
           location |-> e.loc]
    IN MapSeq(SelectSeq(Flat(arg.ir), Hit), Rec)

\* C4: common-subexpression elimination, per block, rewrites every
\* add/sub/mul/div/mod instruction that has an earlier instruction in the
\* same block with the identical opcode and operand sequence into a copy of
\* the result of the first such earlier instruction (result unchanged),
\* records one common_subexpression entry per rewrite with reused = that
\* earlier result, and leaves every other instruction unchanged.
C4_CommonSubexpressionsBecomeCopies ==
    op = "_common_subexpression_elimination" =>
        /\ ~ret.raised
        /\ SameFrame(arg.ir, ir_code)
        /\ \A id \in BlockIds(arg.ir) :
              LET before == InstrsOf(arg.ir, id)
                  after == InstrsOf(ir_code, id)
              IN /\ Len(after) = Len(before)
                 /\ \A i \in 1..Len(before) :
                       IF Redundant(before, i)
                       THEN after[i] =
                              [opcode |-> "copy",
                               operands |-> <<before[Least(EarlierSame(before, i))].result>>,
                               result |-> before[i].result]
                       ELSE after[i] = before[i]
        /\ ret.value = CseRecords

\* [add(a,b) -> t1, add(a,b) -> t2, add(a,b) -> t3]: the 2nd and 3rd became
\* copies of t1, with two entries
C4_Witness ==
    /\ op = "_common_subexpression_elimination"
    /\ BlockOne(arg.ir) = <<Inst("add", <<(<<"a">>), (<<"b">>)>>, TempName(1)),
                            Inst("add", <<(<<"a">>), (<<"b">>)>>, TempName(2)),
                            Inst("add", <<(<<"a">>), (<<"b">>)>>, TempName(3))>>
    /\ BlockOne(ir_code) = <<Inst("add", <<(<<"a">>), (<<"b">>)>>, TempName(1)),
                             Inst("copy", <<TempName(1)>>, TempName(2)),
                             Inst("copy", <<TempName(1)>>, TempName(3))>>
    /\ Len(ret.value) = 2
    /\ ret.value[1].reused = TempName(1)
    /\ ret.value[2].reused = TempName(1)

-----------------------------------------------------------------------------
(* C5 *)

\* the entry of a pass in the optimizations list: none when it changed nothing
EntryOf(pass, details) ==
    IF details = <<>> THEN <<>>
    ELSE <<[type |-> pass, description |-> PassDescription(pass), details |-> details]>>

\* C5: an optimizer invocation runs constant folding, then dead-code
\* elimination, then common-subexpression elimination, once each and each on
\* the module as the previous pass left it; the returned list holds at most
\* one entry per pass, in that order, and none for a pass that changed
\* nothing.
C5_PassesRunOnceInOrder ==
    op = "_apply_optimizations" =>
        LET cf == ConstantFolding(arg.ir)
            dce == DeadCodeElimination(cf.ir)
            cse == CommonSubexpressionElimination(dce.ir)
        IN /\ ~ret.raised
           /\ ir_code = cse.ir
           /\ ret.value = EntryOf("constant_folding", cf.out)
                          \o EntryOf("dead_code_elimination", dce.out)
                          \o EntryOf("common_subexpression_elimination", cse.out)
           /\ (cf.out = <<>>) <=> (cf.ir = arg.ir)
           /\ (dce.out = <<>>) <=> (dce.ir = cf.ir)
           /\ (cse.out = <<>>) <=> (cse.ir = dce.ir)

\* [div(5,0) -> t1, div(5,0) -> t2, add(t1,t2) -> t3]: folding changed
\* nothing and has no entry, dead-code elimination dropped t3, and the second
\* div became a copy: two entries, in pass order
C5_Witness ==
    /\ op = "_apply_optimizations"
    /\ BlockOne(arg.ir) = <<Inst("div", <<(<<"5">>), (<<"0">>)>>, TempName(1)),
                            Inst("div", <<(<<"5">>), (<<"0">>)>>, TempName(2)),
                            Inst("add", <<TempName(1), TempName(2)>>, TempName(3))>>
    /\ BlockOne(ir_code) = <<Inst("div", <<(<<"5">>), (<<"0">>)>>, TempName(1)),
                             Inst("copy", <<TempName(1)>>, TempName(2))>>
    /\ Len(ret.value) = 2
    /\ ret.value[1].type = "dead_code_elimination"
    /\ ret.value[2].type = "common_subexpression_elimination"

-----------------------------------------------------------------------------
(* What the claims about generate and the allocator are stated in *)

\* the call that has just returned is a call of the method named
Called(method) == op' = method /\ calls' = calls + 1

\* parse_success is false or absent in an upstream result
ParseFailed(a) == "parse_success" \notin DOMAIN a \/ ~a.parse_success

\* the type-analysis stage reports failure
AnalysisFailed(t) == "success" \in DOMAIN t /\ ~t.success

ErrorsOf(a) == IF "errors" \in DOMAIN a THEN a.errors ELSE <<>>

FailureResult(errors) ==
    [success |-> FALSE, errors |-> errors, ir |-> EmptyDict, optimizations |-> <<>>]

\* the functions of the module the last call returned
LoweredFunctions ==
    IF ret.raised THEN <<>>
    ELSE IF op = "generate" /\ ret.value.success THEN ret.value.ir.functions
    ELSE IF op = "_ast_to_ir" THEN ret.value.functions
    ELSE <<>>

BlockNames(f) == {f.basic_blocks[i].name : i \in DOMAIN f.basic_blocks}

Branching(f) == {i \in DOMAIN f.basic_blocks : f.basic_blocks[i].successors # <<>>}

\* the place <<k, i>> of every block of the module the last call returned
Places ==
    UNION {{<<k, i>> : i \in DOMAIN LoweredFunctions[k].basic_blocks} :
             k \in DOMAIN LoweredFunctions}

BlockAt(p) == LoweredFunctions[p[1]].basic_blocks[p[2]]

\* the place <<k, i, j>> of every instruction of that module
InstrPlaces ==
    UNION {{<<p[1], p[2], j>> : j \in DOMAIN BlockAt(p).instructions} : p \in Places}

InstrAt(q) == BlockAt(q).instructions[q[3]]

\* the last call lowered a module and returned it
LoweredModule == op \in {"generate", "_ast_to_ir"} /\ ~ret.raised

\* the module handed to the last lowering and the module it returned
LoweredAst == IF op = "generate" THEN arg.ast_data.ast ELSE arg.ast_node

LoweredIr == IF op = "generate" THEN ret.value.ir ELSE ret.value

-----------------------------------------------------------------------------
(* C1 *)

\* C1: in every function that lowering returns, for programs nesting If,
\* For and While, every name in a block's successor list is the name of a
\* block in that function's basic_blocks list.
C1_NoDanglingSuccessors ==
    \A k \in DOMAIN LoweredFunctions :
       LET f == LoweredFunctions[k] IN
       \A i \in DOMAIN f.basic_blocks :
          \A j \in DOMAIN f.basic_blocks[i].successors :
             f.basic_blocks[i].successors[j] \in BlockNames(f)

\* generate has lowered  for i in range(n): if c: x = a + 1  into ten blocks,
\* six of which have successors
C1_Witness ==
    /\ op = "generate"
    /\ arg.ast_data.ast =
          ProgramF(<<For(Name(<<"i">>), RangeN, <<If(Name(<<"c">>), <<AssignX>>, <<>>)>>)>>)
    /\ Len(LoweredFunctions) = 1
    /\ Len(LoweredFunctions[1].basic_blocks) = 10
    /\ Cardinality(Branching(LoweredFunctions[1])) = 6

-----------------------------------------------------------------------------
(* C7 *)

\* C7: a generate call whose upstream result has parse_success false or
\* absent returns success = false, the upstream errors unchanged, an empty
\* ir and an empty optimizations list, and allocates no temporary, block or
\* function name.
C7_ParseFailureShortCircuits ==
    [][ (Called("generate") /\ ParseFailed(arg'.ast_data)) =>
           /\ ret' = Returned(FailureResult(ErrorsOf(arg'.ast_data)))
           /\ UNCHANGED <<temp_counter, block_counter, function_counter>> ]_vars

\* generate has returned the failure result for a failed parse on a
\* generator that had allocated a temporary before
C7_Witness ==
    /\ op = "generate"
    /\ ParseFailed(arg.ast_data)
    /\ ret = Returned(FailureResult(<<"Parse error">>))
    /\ temp_counter = 1

-----------------------------------------------------------------------------
(* C8 *)

\* C8: a generate call whose type-analysis result is unsuccessful while
\* parsing succeeded performs no lowering and returns an unsuccessful result
\* with an error list and an empty IR.
C8_TypeFailureShortCircuits ==
    (op = "generate" /\ ~ParseFailed(arg.ast_data) /\ AnalysisFailed(arg.type_info)) =>
        /\ ~ret.raised
        /\ ret.value.success = FALSE
        /\ "errors" \in DOMAIN ret.value
        /\ ret.value.ir = EmptyDict

\* generate has lowered the tree although the analysis of it failed
C8_LoweredDespiteFailure ==
    /\ op = "generate"
    /\ ~ParseFailed(arg.ast_data)
    /\ AnalysisFailed(arg.type_info)
    /\ ~ret.raised
    /\ ret.value.success
    /\ Len(ret.value.ir.functions) = 1
    /\ block_counter > 0

-----------------------------------------------------------------------------
(* C9 *)

ZeroCounters == Counters(0, 0, 0)

\* each allocation adds one to its own counter only and returns the name
\* built from the new value
AllocationsCountByOne ==
    /\ Called("_new_temp") =>
          /\ temp_counter' = temp_counter + 1
          /\ ret' = Returned(<<"t">> \o PyStr(temp_counter'))
          /\ UNCHANGED <<block_counter, function_counter>>
    /\ Called("_new_block") =>
          /\ block_counter' = block_counter + 1
          /\ ret' = Returned(<<"b", "l", "o", "c", "k", "_">> \o PyStr(block_counter'))
          /\ UNCHANGED <<temp_counter, function_counter>>
    /\ Called("_new_function") =>
          /\ function_counter' = function_counter + 1
          /\ ret' = Returned(<<"f", "u", "n", "c", "_">> \o PyStr(function_counter'))
          /\ UNCHANGED <<temp_counter, block_counter>>

\* the counters a generate call leaves are those the same call leaves on a
\* generator whose counters are 0: the call started by resetting them
LeftAsFromZero ==
    Generator' = Generate(arg'.ast_data, arg'.type_info, ZeroCounters).gen

-----------------------------------------------------------------------------
(* C10 *)

\* C10: what a generate call returns is what a new generator returns for the
\* same AST and type table, whatever was called on the generator before: the
\* same names, order, optimization records and metadata.
C10_GenerateIsDeterministic ==
    op = "generate" =>
        ret = Generate(arg.ast_data, arg.type_info, ZeroCounters).ret

\* a generate call that follows other calls has returned a module with two
\* functions, optimization records and temporaries in use
C10_Witness ==
    /\ op = "generate"
    /\ calls >= 2
    /\ ~ret.raised
    /\ ret.value.success
    /\ Len(ret.value.ir.functions) = 2
    /\ ret.value.optimizations # <<>>
    /\ ret.value.metadata.temp_vars_used > 0

-----------------------------------------------------------------------------
(* C11 *)

\* C11: in the module one lowering returns, no two blocks carry the same
\* name, in one function or in two, no two instructions write the same
\* temporary, and the temporaries t1 .. t<temp_counter> the allocator has
\* handed out are pairwise different names, whatever the nesting of the
\* control constructs and the number of functions.
C11_NamesAreUnique ==
    LoweredModule =>
        /\ \A p \in Places : \A q \in Places :
              BlockAt(p).name = BlockAt(q).name => p = q
        /\ \A p \in InstrPlaces : \A q \in InstrPlaces :
              (InstrAt(p).result # PyNone /\ InstrAt(p).result = InstrAt(q).result) => p = q
        /\ \A i \in 1..temp_counter : \A j \in 1..temp_counter :
              TempName(i) = TempName(j) => i = j
        /\ Cardinality({BlockAt(p).name : p \in Places}) = Cardinality(Places)

\* _ast_to_ir has lowered two functions that nest a For in a While into
\* sixteen blocks and six instructions that write a temporary
C11_Witness ==
    /\ LoweredModule
    /\ op = "_ast_to_ir"
    /\ Len(LoweredFunctions) = 2
    /\ Cardinality(Places) >= 16
    /\ Cardinality({q \in InstrPlaces : InstrAt(q).result # PyNone}) >= 6

-----------------------------------------------------------------------------
(* C12 *)

\* a module-level assignment, plain or annotated, of a literal constant
IsLiteralAssignment(stmt) ==
    /\ stmt.node_type \in {"Assign", "AnnAssign"}
    /\ stmt.value.node_type = "Constant"

LiteralOnly(module) ==
    /\ module.body # <<>>
    /\ \A k \in DOMAIN module.body : IsLiteralAssignment(module.body[k])

\* the text of a literal as the source writes it; a string in double quotes,
\* None as null
LiteralText(c) ==
    CASE c.kind = "int" -> PyStr(c.ival)
      [] c.kind = "bool" -> IF c.ival = 1 THEN <<"T", "r", "u", "e">>
                            ELSE <<"F", "a", "l", "s", "e">>
      [] c.kind = "float" -> PyStr(c.ival) \o <<".">> \o c.sval
      [] c.kind = "str" -> <<"\"">> \o c.sval \o <<"\"">>
      [] c.kind = "none" -> Null

TargetsOf(stmt) == IF stmt.node_type = "AnnAssign" THEN <<stmt.target>> ELSE stmt.targets

RECURSIVE StoresOf(_)
\* one store per assignment target, in source order
StoresOf(body) ==
    IF body = <<>> THEN <<>>
    ELSE [k \in 1..Len(TargetsOf(Head(body))) |->
             [name |-> TargetsOf(Head(body))[k].id,
              instruction |-> Inst("store", <<LiteralText(Head(body).value),
                                              TargetsOf(Head(body))[k].id>>, PyNone)]]
         \o StoresOf(Tail(body))

\* the name and the store instruction of every global_vars entry
GlobalStores ==
    [k \in DOMAIN LoweredIr.global_vars |->
        [name |-> LoweredIr.global_vars[k].name,
         instruction |-> LoweredIr.global_vars[k].instruction]]

\* C12: for a module whose body holds only top-level assignments of literal
\* constants, global_vars has exactly one entry per assignment target, in
\* source order, each with the instruction store [text of the literal,
\* target name] and result none, and the lowering allocates no temporary and
\* no block.
C12_OneGlobalPerLiteralAssignment ==
    (LoweredModule /\ LiteralOnly(LoweredAst)) =>
        /\ GlobalStores = StoresOf(LoweredAst.body)
        /\ temp_counter = 0
        /\ block_counter = 0

\* the module  y: int = 7  was lowered into a module without global_vars
C12_AnnotatedAssignmentDropped ==
    /\ LoweredModule
    /\ LiteralOnly(LoweredAst)
    /\ Len(LoweredAst.body) = 1
    /\ LoweredAst.body[1].node_type = "AnnAssign"
    /\ LoweredIr.global_vars = <<>>

-----------------------------------------------------------------------------
(* C13 *)

\* the operator-to-opcode table
OpcodeTable ==
    [Add |-> "add", Sub |-> "sub", Mult |-> "mul", Div |-> "div", Mod |-> "mod",
     Pow |-> "pow", LShift |-> "shl", RShift |-> "shr", BitOr |-> "or",
     BitXor |-> "xor", BitAnd |-> "and", FloorDiv |-> "floordiv"]

\* the opcode of a BinOp node: unknown for an operator the table does not
\* hold and for a node without operator
OpcodeOf(binop_node) ==
    IF "op" \in DOMAIN binop_node /\ binop_node.op.node_type \in DOMAIN OpcodeTable
      THEN OpcodeTable[binop_node.op.node_type]
      ELSE "unknown"

\* what lowering a binary operation returns and leaves, given the lowering
\* of its left operand and then of its right operand
BinopLowersTo(binop_node, left_ir, right_ir) ==
    /\ ~left_ir.raised
    /\ ~right_ir.raised
    /\ temp_counter' = right_ir.temp_counter + 1
    /\ ret' = Returned([result |-> <<"t">> \o PyStr(temp_counter'),
                        type |-> Auto,
                        instruction |-> <<Inst(OpcodeOf(binop_node),
                                               <<left_ir.result, right_ir.result>>,
                                               <<"t">> \o PyStr(temp_counter'))>>])

\* C13: lowering a binary operation lowers the left operand, then the right
\* operand, then allocates one temporary, numbered after every temporary
\* of the operands, and returns it with one instruction: the opcode is the
\* table's mapping of the operator (unknown for an unrecognized or missing
\* operator), the operands are [left value-reference, right value-reference]
\* and the result is the new temporary.
C13_BinopLowersLeftThenRight ==
    [][ Called("_binop_to_ir") =>
          BinopLowersTo(arg'.binop_node,
                        ExpressionToIr(arg'.binop_node.left, arg'.type_info, temp_counter),
                        ExpressionToIr(arg'.binop_node.right, arg'.type_info,
                                       ExpressionToIr(arg'.binop_node.left, arg'.type_info,
                                                      temp_counter).temp_counter)) ]_vars

\* on a generator that had allocated t1,  (a * 1) + range(n)  was lowered to
\* add [t2, t3] -> t4
C13_Witness ==
    /\ op = "_binop_to_ir"
    /\ OpcodeOf(arg.binop_node) = "add"
    /\ arg.binop_node.left.node_type = "BinOp"
    /\ arg.binop_node.right.node_type = "Call"
    /\ ret = Returned([result |-> TempName(4), type |-> Auto,
                       instruction |-> <<Inst("add", <<TempName(2), TempName(3)>>,
                                              TempName(4))>>])
    /\ temp_counter = 4

-----------------------------------------------------------------------------
(* C14 *)

\* a function body made of nodes that lack fields of their kind: an If
\* without body, an Assign without value, a BinOp without op
LacksFields(ast) ==
    /\ ast # NoneNode
    /\ Len(ast.body) = 1
    /\ LET body == ast.body[1].body
       IN \E k \in DOMAIN body :
             \/ body[k].node_type = "For" /\ "target" \notin DOMAIN body[k]
             \/ body[k].node_type = "If" /\ "body" \notin DOMAIN body[k]
             \/ body[k].node_type = "Assign" /\ "value" \notin DOMAIN body[k]
             \/ body[k].node_type = "Expr" /\ "func" \notin DOMAIN body[k].value

\* C14: lowering never raises on an AST whose nodes lack fields of their
\* kind (a For without target, a Call without func, an If without body, an
\* Assign without value, a BinOp without op): generate completes and
\* returns a successful result.
C14_LoweringNeverRaises ==
    (op = "generate" /\ ~ParseFailed(arg.ast_data) /\ LacksFields(arg.ast_data.ast)) =>
        /\ ~ret.raised
        /\ ret.value.success

\* generate raised on a function whose body is a For node without target
C14_RaisedOnForWithoutTarget ==
    /\ op = "generate"
    /\ ~ParseFailed(arg.ast_data)
    /\ arg.ast_data.ast = ProgramF(<<Node("For", [iter |-> RangeN, body |-> <<>>])>>)
    /\ ret.raised

-----------------------------------------------------------------------------
(* C15 *)

\* an arithmetic instruction on two operand texts that are not both integer
\* literals
NonLiteralPair(inst) ==
    /\ inst.opcode \in ArithOps
    /\ Len(inst.operands) = 2
    /\ inst.operands[1] # PyNone
    /\ inst.operands[2] # PyNone
    /\ ~(IntLiteral(inst.operands[1]) /\ IntLiteral(inst.operands[2]))

\* C15: constant folding does not raise on an arithmetic instruction whose
\* operand text is not an integer literal (a variable name, a temporary,
\* float text, signed text, a quoted string, empty text): the instruction is
\* left as it was, no record is made for it, and the instructions that
\* follow it in the block are still folded.
C15_NonLiteralOperandsLeftAlone ==
    op = "_constant_folding" =>
        /\ ~ret.raised
        /\ \A id \in BlockIds(arg.ir) :
              \A i \in 1..Len(InstrsOf(arg.ir, id)) :
                 NonLiteralPair(InstrsOf(arg.ir, id)[i]) =>
                    /\ i <= Len(InstrsOf(ir_code, id))
                    /\ InstrsOf(ir_code, id)[i] = InstrsOf(arg.ir, id)[i]
                    /\ \A k \in 1..Len(ret.value) :
                          ret.value[k].original # InstrsOf(arg.ir, id)[i]
                    /\ \A j \in (i + 1)..Len(InstrsOf(arg.ir, id)) :
                          FoldableInst(InstrsOf(arg.ir, id)[j]) =>
                             /\ j <= Len(InstrsOf(ir_code, id))
                             /\ FoldedAs(InstrsOf(arg.ir, id)[j], InstrsOf(ir_code, id)[j])

\* sub(-5, 3) and mul("a", empty) were left alone and the add(5, 3) after
\* them was folded, with one record
C15_Witness ==
    /\ op = "_constant_folding"
    /\ ~ret.raised
    /\ BlockOne(arg.ir) = <<Inst("sub", <<(<<"-", "5">>), (<<"3">>)>>, TempName(1)),
                            Inst("mul", <<(<<"\"", "a", "\"">>), (<<>>)>>, TempName(2)),
                            Inst("add", <<(<<"5">>), (<<"3">>)>>, TempName(3))>>
    /\ BlockOne(ir_code) = <<Inst("sub", <<(<<"-", "5">>), (<<"3">>)>>, TempName(1)),
                             Inst("mul", <<(<<"\"", "a", "\"">>), (<<>>)>>, TempName(2)),
                             Inst("const", <<(<<"8">>)>>, TempName(3))>>
    /\ Len(ret.value) = 1

-----------------------------------------------------------------------------
(* C16 *)

\* generate has returned a successful result
Generated == op = "generate" /\ ~ret.raised /\ ret.value.success

\* C16: in the result of a successful generate call the metadata function
\* count is the number of functions of the module, the block count is the
\* number of basic blocks of all its functions, and the temporary count is
\* the number of temporaries the call allocated.
C16_MetadataCountsTheModule ==
    Generated =>
        /\ ret.value.metadata.functions = Len(ret.value.ir.functions)
        /\ ret.value.metadata.basic_blocks = Cardinality(Places)
        /\ ret.value.metadata.temp_vars_used = temp_counter

\* generate returned a module of two functions and twelve blocks with a
\* function count of 0
C16_FunctionCountZero ==
    /\ Generated
    /\ Len(ret.value.ir.functions) = 2
    /\ Cardinality(Places) = 12
    /\ ret.value.metadata = [temp_vars_used |-> temp_counter, basic_blocks |-> 12,
                             functions |-> 0]

-----------------------------------------------------------------------------
(* C17 *)

RECURSIVE ReachFrom(_, _)
\* the names of the blocks reached from the blocks named in seen by
\* following successor edges
ReachFrom(f, seen) ==
    LET next == seen \cup
                {n \in BlockNames(f) :
                    \E i \in DOMAIN f.basic_blocks :
                       /\ f.basic_blocks[i].name \in seen
                       /\ InSeq(n, f.basic_blocks[i].successors)}
    IN IF next = seen THEN seen ELSE ReachFrom(f, next)

\* the blocks reachable from the entry block, the first of the list
Reachable(f) ==
    IF f.basic_blocks = <<>> THEN {} ELSE ReachFrom(f, {f.basic_blocks[1].name})

\* C17: in every function lowered from any nesting of If, For and While
\* statements every block of the basic_blocks list is reachable from the
\* function's first block by following successor edges: one connected
\* graph, no orphaned block.
C17_EveryBlockReachable ==
    LoweredModule =>
        \A k \in DOMAIN LoweredFunctions :
           Reachable(LoweredFunctions[k]) = BlockNames(LoweredFunctions[k])

\* def f(n): if c: x = a + 1  was lowered into five blocks; block_5, which
\* holds the store of the then-body, is not reachable from block_1
C17_OrphanedBlock ==
    /\ LoweredModule
    /\ LoweredAst = ProgramF(<<If(Name(<<"c">>), <<AssignX>>, <<>>)>>)
    /\ Len(LoweredFunctions[1].basic_blocks) = 5
    /\ Reachable(LoweredFunctions[1]) =
          {BlockName(1), BlockName(2), BlockName(3), BlockName(4)}
    /\ \E i \in DOMAIN LoweredFunctions[1].basic_blocks :
          /\ LoweredFunctions[1].basic_blocks[i].name = BlockName(5)
          /\ LoweredFunctions[1].basic_blocks[i].instructions # <<>>

-----------------------------------------------------------------------------
(* C18 *)

\* a statement list of assignments and returns only
LeafList(statements) ==
    \A k \in DOMAIN statements : statements[k].node_type \in {"Assign", "Return"}

\* the body of the only function of a module
BodyOfF(ast) == ast.body[1].body

\* the module is one function whose body holds an If at position k, with a
\* then-body and an else-body of assignments and returns
IfAt(ast, k) ==
    /\ Len(ast.body) = 1
    /\ ast.body[1].node_type = "FunctionDef"
    /\ k \in DOMAIN BodyOfF(ast)
    /\ BodyOfF(ast)[k].node_type = "If"
    /\ LeafList(BodyOfF(ast)[k].body)
    /\ LeafList(BodyOfF(ast)[k].orelse)

IsEffect(inst) == inst.opcode \in {"store", "return"}

\* the stores and returns of a block, in order, as opcodes
Effects(instructions) ==
    [k \in DOMAIN SelectSeq(instructions, IsEffect) |->
        SelectSeq(instructions, IsEffect)[k].opcode]

\* the stores and returns a list of assignments (to one name) and returns
\* lowers to
EffectsOf(statements) ==
    [k \in DOMAIN statements |->
        IF statements[k].node_type = "Assign" THEN "store" ELSE "return"]

BlockNamed(f, name) ==
    f.basic_blocks[CHOOSE i \in DOMAIN f.basic_blocks : f.basic_blocks[i].name = name]

\* _ast_to_ir has returned the module as lowering left it
LoweredOnly == op = "_ast_to_ir" /\ ~ret.raised

\* C18: the instructions lowered from the then-body of an If are in the
\* block the branching block names as its first successor, and those
\* lowered from its else-body in the block it names as its second
\* successor.
C18_BranchBodiesInBranchBlocks ==
    (LoweredOnly /\ IfAt(arg.ast_node, 1)) =>
        LET f == ret.value.functions[1]
            branching == f.basic_blocks[1]
        IN /\ Len(branching.successors) = 2
           /\ Effects(BlockNamed(f, branching.successors[1]).instructions)
                 = EffectsOf(BodyOfF(arg.ast_node)[1].body)
           /\ Effects(BlockNamed(f, branching.successors[2]).instructions)
                 = EffectsOf(BodyOfF(arg.ast_node)[1].orelse)

\* def f(n): if c: x = a + 1  was lowered with an empty then block block_2;
\* the store to x is in block_5
C18_ThenBodyInAnotherBlock ==
    /\ LoweredOnly
    /\ arg.ast_node = ProgramF(<<If(Name(<<"c">>), <<AssignX>>, <<>>)>>)
    /\ ret.value.functions[1].basic_blocks[1].successors = <<BlockName(2), BlockName(3)>>
    /\ BlockNamed(ret.value.functions[1], BlockName(2)).instructions = <<>>
    /\ Effects(BlockNamed(ret.value.functions[1], BlockName(5)).instructions) = <<"store">>

-----------------------------------------------------------------------------
(* C19 *)

\* the module is one function whose body is a statement, an If and return x
IfThenReturn(ast) ==
    /\ Len(ast.body) = 1
    /\ ast.body[1].node_type = "FunctionDef"
    /\ Len(BodyOfF(ast)) = 3
    /\ BodyOfF(ast)[2].node_type = "If"
    /\ BodyOfF(ast)[3] = ReturnX

OpcodesIn(instructions) == {instructions[k].opcode : k \in DOMAIN instructions}

\* the block the then block of the branching block leads to
MergeBlockOf(f, branching) ==
    BlockNamed(f, BlockNamed(f, branching.successors[1]).successors[1])

\* C19: the instructions of the statements that follow an If in its
\* statement list are appended to the merge block of the If, not to the
\* block that holds the branch.
C19_FollowingStatementsInMergeBlock ==
    (LoweredOnly /\ IfThenReturn(arg.ast_node)) =>
        LET f == ret.value.functions[1]
        IN /\ "branch" \in OpcodesIn(f.basic_blocks[1].instructions)
           /\ "return" \in OpcodesIn(MergeBlockOf(f, f.basic_blocks[1]).instructions)
           /\ "return" \notin OpcodesIn(f.basic_blocks[1].instructions)

\* def f(n): x = a + 1; if c: (empty body); return x  was lowered with the
\* return after the branch in block_1 and an empty merge block block_4
C19_ReturnAfterBranch ==
    /\ LoweredOnly
    /\ arg.ast_node = ProgramF(<<AssignX, If(Name(<<"c">>), <<>>, <<>>), ReturnX>>)
    /\ Effects(ret.value.functions[1].basic_blocks[1].instructions) = <<"store", "return">>
    /\ ret.value.functions[1].basic_blocks[1].instructions[2].opcode = "branch"
    /\ ret.value.functions[1].basic_blocks[1].instructions[3].opcode = "return"
    /\ MergeBlockOf(ret.value.functions[1], ret.value.functions[1].basic_blocks[1]).name
          = BlockName(4)
    /\ MergeBlockOf(ret.value.functions[1], ret.value.functions[1].basic_blocks[1]).instructions
          = <<>>

-----------------------------------------------------------------------------
(* C20 *)

\* the text is a name _new_temp gives out: t and a decimal number
IsTempName(s) ==
    /\ Len(s) >= 2
    /\ s[1] = "t"
    /\ \A k \in 2..Len(s) : s[k] \in {"0", "1", "2", "3", "4", "5", "6", "7", "8", "9"}

\* an instruction before place j of block i of f has the result t
ComputedBefore(f, i, j, t) ==
    \E i2 \in DOMAIN f.basic_blocks :
       \E j2 \in DOMAIN f.basic_blocks[i2].instructions :
          /\ f.basic_blocks[i2].instructions[j2].result = t
          /\ i2 < i \/ (i2 = i /\ j2 < j)

\* every temporary among the operands of f is computed before it is used
TempsComputed(f) ==
    \A i \in DOMAIN f.basic_blocks :
       \A j \in DOMAIN f.basic_blocks[i].instructions :
          \A o \in DOMAIN f.basic_blocks[i].instructions[j].operands :
             IsTempName(f.basic_blocks[i].instructions[j].operands[o]) =>
                ComputedBefore(f, i, j, f.basic_blocks[i].instructions[j].operands[o])

\* C20: in every lowered function each temporary used as an operand is the
\* result of an instruction that precedes the use: the instruction that
\* computes the value of an assignment, return, branch test or loop iterable
\* is appended before the store, return, branch or init_iter that uses it.
C20_TemporariesComputedBeforeUse ==
    LoweredOnly =>
        \A k \in DOMAIN ret.value.functions : TempsComputed(ret.value.functions[k])

\* def f(n): x = a + 1  was lowered to the single instruction store [t1, x]:
\* the add that computes t1 is in no block
C20_StoreOfUncomputedTemp ==
    /\ LoweredOnly
    /\ arg.ast_node = ProgramF(<<AssignX>>)
    /\ Len(ret.value.functions[1].basic_blocks) = 1
    /\ ret.value.functions[1].basic_blocks[1].instructions
          = <<Inst("store", <<TempName(1), <<"x">>>>, PyNone)>>

-----------------------------------------------------------------------------
(* C21 *)

\* an instruction of the module the last call returned has this opcode and
\* this result, in the function of place q
ProducedIn(q, opcode, result) ==
    \E q2 \in InstrPlaces :
       /\ q2[1] = q[1]
       /\ InstrAt(q2).opcode = opcode
       /\ InstrAt(q2).result = result

\* C21: dead-code elimination deletes an unused temporary only when no
\* instruction in any block of the function uses it: in the output of
\* generate, the init_iter that produces the iterator handle read by the
\* get_next (and has_next) of a for loop is still present.
C21_InitIterSurvivesGenerate ==
    Generated =>
        \A q \in InstrPlaces :
           InstrAt(q).opcode \in {"get_next", "has_next"} =>
              ProducedIn(q, "init_iter", InstrAt(q).operands[1])

\* def f(n): for i in range(n): (empty body)  went through generate: the init
\* block block_2 is empty, while the body block block_4 still reads the
\* handle t2
C21_InitIterDeleted ==
    /\ Generated
    /\ LoweredAst = ProgramF(<<For(Name(<<"i">>), RangeN, <<>>)>>)
    /\ BlockNamed(LoweredFunctions[1], BlockName(2)).instructions = <<>>
    /\ BlockNamed(LoweredFunctions[1], BlockName(4)).instructions
          = <<Inst("get_next", <<TempName(2)>>, TempName(4)),
              Inst("store", <<TempName(4), <<"i">>>>, PyNone)>>
    /\ \E e \in DOMAIN ret.value.optimizations :
          /\ ret.value.optimizations[e].type = "dead_code_elimination"
          /\ InSeq([type |-> "unused_temp", temp |-> TempName(2),
                    location |-> <<"f", ".">> \o BlockName(2)],
                   ret.value.optimizations[e].details)

-----------------------------------------------------------------------------
(* C22 *)

\* the instructions a block with two successors chooses between them by
ControlOpcodes == {"branch", "has_next"}

\* C22: in every function produced by lowering, a block that contains a
\* return has no successors, and a block with successors has either one
\* fall-through target or the two targets of a control instruction it holds.
C22_SuccessorsMatchTerminator ==
    LoweredOnly =>
        \A p \in Places :
           /\ "return" \in OpcodesIn(BlockAt(p).instructions) => BlockAt(p).successors = <<>>
           /\ Len(BlockAt(p).successors) <= 2
           /\ Len(BlockAt(p).successors) = 2 =>
                 OpcodesIn(BlockAt(p).instructions) \cap ControlOpcodes # {}

\* def f(n): x = a + 1; if c: (empty body); return x  was lowered with
\* block_1 holding the return and still naming block_2 and block_3 as its
\* successors
C22_ReturnBlockWithSuccessors ==
    /\ LoweredOnly
    /\ arg.ast_node = ProgramF(<<AssignX, If(Name(<<"c">>), <<>>, <<>>), ReturnX>>)
    /\ BlockAt(<<1, 1>>).name = BlockName(1)
    /\ "return" \in OpcodesIn(BlockAt(<<1, 1>>).instructions)
    /\ BlockAt(<<1, 1>>).successors = <<BlockName(2), BlockName(3)>>

-----------------------------------------------------------------------------
(* C23 *)

\* the module is one function whose first statement is a loop of this kind
\* with a body of assignments and returns
LoopFirst(ast, node_type) ==
    /\ Len(ast.body) = 1
    /\ ast.body[1].node_type = "FunctionDef"
    /\ BodyOfF(ast) # <<>>
    /\ BodyOfF(ast)[1].node_type = node_type
    /\ LeafList(BodyOfF(ast)[1].body)

\* the first block of f, in the order of its block list, that holds opcode
FirstWith(f, opcode) ==
    f.basic_blocks[CHOOSE i \in DOMAIN f.basic_blocks :
                      /\ opcode \in OpcodesIn(f.basic_blocks[i].instructions)
                      /\ \A i2 \in 1..(i - 1) :
                            opcode \notin OpcodesIn(f.basic_blocks[i2].instructions)]

\* C23: the instructions lowered from the body of a For loop are in the
\* loop's body block, after its get_next and its store into the loop
\* variable; those lowered from the body of a While loop are in the block
\* the test block names as its first successor.
C23_LoopBodiesInBodyBlocks ==
    /\ (LoweredOnly /\ LoopFirst(arg.ast_node, "For")) =>
          LET body_block == FirstWith(ret.value.functions[1], "get_next")
          IN /\ body_block.instructions[1].opcode = "get_next"
             /\ body_block.instructions[2].opcode = "store"
             /\ Effects(body_block.instructions)
                   = <<"store">> \o EffectsOf(BodyOfF(arg.ast_node)[1].body)
    /\ (LoweredOnly /\ LoopFirst(arg.ast_node, "While")) =>
          LET test_block == FirstWith(ret.value.functions[1], "branch")
          IN /\ Len(test_block.successors) = 2
             /\ Effects(BlockNamed(ret.value.functions[1],
                                   test_block.successors[1]).instructions)
                   = EffectsOf(BodyOfF(arg.ast_node)[1].body)

\* def f(n): for i in range(n): x = a + 1  was lowered with a body block
\* block_4 of get_next and the store to i only; the store to x is in block_6
C23_ForBodyInAnotherBlock ==
    /\ LoweredOnly
    /\ arg.ast_node = ProgramF(<<For(Name(<<"i">>), RangeN, <<AssignX>>)>>)
    /\ FirstWith(ret.value.functions[1], "get_next").name = BlockName(4)
    /\ FirstWith(ret.value.functions[1], "get_next").successors = <<BlockName(3)>>
    /\ Effects(FirstWith(ret.value.functions[1], "get_next").instructions) = <<"store">>
    /\ Len(BlockNamed(ret.value.functions[1], BlockName(6)).instructions) = 1
    /\ BlockNamed(ret.value.functions[1], BlockName(6)).instructions[1].operands[2] = <<"x">>

-----------------------------------------------------------------------------
(* C24 *)

RECURSIVE CountOf(_, _)
\* the number of statements of this kind in a statement list, at any depth
CountOf(statements, node_type) ==
    IF statements = <<>> THEN 0
    ELSE (IF Head(statements).node_type = node_type THEN 1 ELSE 0)
         + (IF Head(statements).node_type \in {"FunctionDef", "If", "For", "While"}
              THEN CountOf(Get(Head(statements), "body", <<>>), node_type)
                   + CountOf(Get(Head(statements), "orelse", <<>>), node_type)
              ELSE 0)
         + CountOf(Tail(statements), node_type)

\* the block d places after place p in the block list of its function
Nth(p, d) == BlockAt(<<p[1], p[2] + d>>)

\* the places of the init blocks of the For loops
InitBlocks == {p \in Places : "init_iter" \in OpcodesIn(BlockAt(p).instructions)}

\* the places of the test blocks of the While loops: a block of one branch
\* followed in the block list by the two blocks named right after it
TestBlocks ==
    {p \in Places :
       /\ <<p[1], p[2] + 2>> \in Places
       /\ Len(BlockAt(p).instructions) = 1
       /\ BlockAt(p).instructions[1].opcode = "branch"
       /\ \E n \in 1..block_counter :
             /\ BlockAt(p).name = BlockName(n)
             /\ Nth(p, 1).name = BlockName(n + 1)
             /\ Nth(p, 2).name = BlockName(n + 2)}

\* C24: every For loop, at any depth, leaves four blocks with the successors
\* init -> [loop], loop -> [body, exit], body -> [loop], and every While
\* loop three blocks with test -> [body, exit], body -> [test]; lowering the
\* loop body or later statements does not overwrite them.
C24_LoopLinkage ==
    LoweredOnly =>
        /\ Cardinality(InitBlocks) = CountOf(arg.ast_node.body, "For")
        /\ Cardinality(TestBlocks) = CountOf(arg.ast_node.body, "While")
        /\ \A p \in InitBlocks :
              /\ <<p[1], p[2] + 3>> \in Places
              /\ "has_next" \in OpcodesIn(Nth(p, 1).instructions)
              /\ "get_next" \in OpcodesIn(Nth(p, 2).instructions)
              /\ BlockAt(p).successors = <<Nth(p, 1).name>>
              /\ Nth(p, 1).successors = <<Nth(p, 2).name, Nth(p, 3).name>>
              /\ Nth(p, 2).successors = <<Nth(p, 1).name>>
        /\ \A p \in TestBlocks :
              /\ BlockAt(p).successors = <<Nth(p, 1).name, Nth(p, 2).name>>
              /\ Nth(p, 1).successors = <<BlockAt(p).name>>

\* the function of a For, an If, a While, an If and a Return was lowered:
\* the For's blocks block_2..block_5 and the While's blocks block_10..block_12
\* are linked, and the If after each loop put its branch in the loop's exit
\* block
C24_Witness ==
    /\ LoweredOnly
    /\ CountOf(arg.ast_node.body, "For") = 1
    /\ CountOf(arg.ast_node.body, "While") = 1
    /\ CountOf(arg.ast_node.body, "If") = 2
    /\ \E p \in InitBlocks :
          /\ BlockAt(p).name = BlockName(2)
          /\ "branch" \in OpcodesIn(Nth(p, 3).instructions)
          /\ Nth(p, 2).successors = <<BlockName(3)>>
    /\ \E p \in TestBlocks :
          /\ "branch" \in OpcodesIn(Nth(p, 2).instructions)
          /\ Nth(p, 1).successors = <<BlockAt(p).name>>

-----------------------------------------------------------------------------
(* C25 *)

\* the name is one the pass takes for a temporary: it begins with t
IsTemporary(s) == s # PyNone /\ s # <<>> /\ s[1] = "t"

\* instruction i of the block computes a temporary that no later instruction
\* of the block lists among its operands
UnusedTemp(instrs, i) ==
    /\ IsTemporary(instrs[i].result)
    /\ \A j \in (i + 1)..Len(instrs) :
          \A o \in DOMAIN instrs[j].operands : instrs[j].operands[o] # instrs[i].result

\* the end of the part of a block that precedes its first return
BeforeReturn(instrs) ==
    IF FirstReturn(instrs) = 0 THEN Len(instrs) ELSE FirstReturn(instrs) - 1

RECURSIVE Survivors(_, _)
\* the instructions among the first n that are not unused temporaries, in
\* their order
Survivors(instrs, n) ==
    IF n = 0 THEN <<>>
    ELSE Survivors(instrs, n - 1)
         \o (IF UnusedTemp(instrs, n) THEN <<>> ELSE <<instrs[n]>>)

RECURSIVE Deletions(_, _, _)
\* one unused_temp entry for each unused temporary among the first n
\* instructions, in their order
Deletions(instrs, n, loc) ==
    IF n = 0 THEN <<>>
    ELSE Deletions(instrs, n - 1, loc)
         \o (IF UnusedTemp(instrs, n)
               THEN <<[type |-> "unused_temp", temp |-> instrs[n].result, location |-> loc]>>
               ELSE <<>>)

\* C25: among the instructions of a block that precede its first return,
\* dead-code elimination deletes exactly those whose result is a temporary
\* that no later instruction of the block lists among its operands; it
\* records one {unused_temp, temp, location} entry per deletion and keeps
\* every other instruction in its original relative order.
C25_UnusedTemporariesDeleted ==
    op = "_dead_code_elimination" =>
        /\ ~ret.raised
        /\ SameFrame(arg.ir, ir_code)
        /\ \A id \in BlockIds(arg.ir) :
              LET before == InstrsOf(arg.ir, id)
                  after == InstrsOf(ir_code, id)
                  n == BeforeReturn(before)
                  IsEntry(e) == e.type = "unused_temp" /\ e.location = LocOf(arg.ir, id)
              IN /\ SubSeq(after, 1, Len(after) - (IF n < Len(before) THEN 1 ELSE 0))
                       = Survivors(before, n)
                 /\ SelectSeq(ret.value, IsEntry) = Deletions(before, n, LocOf(arg.ir, id))

\* [add(5,3) -> t1, const 7 -> x, mul(t1,2) -> t3] lost the unused mul and
\* kept the add, which the mul used, and the const, whose result is not a
\* temporary
C25_Witness ==
    /\ op = "_dead_code_elimination"
    /\ BlockOne(arg.ir) = <<Inst("add", <<(<<"5">>), (<<"3">>)>>, TempName(1)),
                            Inst("const", <<(<<"7">>)>>, (<<"x">>)),
                            Inst("mul", <<TempName(1), (<<"2">>)>>, TempName(3))>>
    /\ BlockOne(ir_code) = <<Inst("add", <<(<<"5">>), (<<"3">>)>>, TempName(1)),
                             Inst("const", <<(<<"7">>)>>, (<<"x">>))>>
    /\ ret.value = <<[type |-> "unused_temp", temp |-> TempName(3),
                      location |-> <<"t", "e", "s", "t", ".">> \o BlockName(1)]>>

-----------------------------------------------------------------------------
(* C26 *)

\* the instructions with this opcode in the module the last call returned
WithOpcode(opcode) == {q \in InstrPlaces : InstrAt(q).opcode = opcode}

\* the statement list <<x = a + 1, range(n), return x>>
AssignCallReturn == <<AssignX, Node("Expr", [value |-> RangeN]), ReturnX>>

\* C26: lowering an expression statement whose expression is a call
\* appends exactly one nop, without operands or result, to the current block
\* of the statement list, and the call instruction itself to no block; a
\* temporary is still allocated for the call.
C26_CallStatementBecomesNop ==
    (LoweredOnly /\ CountOf(arg.ast_node.body, "Expr") > 0) =>
        /\ Cardinality(WithOpcode("nop")) = CountOf(arg.ast_node.body, "Expr")
        /\ \A q \in WithOpcode("nop") : InstrAt(q) = Inst("nop", <<>>, PyNone)
        /\ WithOpcode("call") = {}
        /\ arg.ast_node = ProgramF(AssignCallReturn) =>
              [j \in DOMAIN BlockAt(<<1, 1>>).instructions |->
                  BlockAt(<<1, 1>>).instructions[j].opcode] = <<"store", "nop", "return">>
        /\ calls = 1 =>
              temp_counter = CountOf(arg.ast_node.body, "Assign")
                             + CountOf(arg.ast_node.body, "Expr")

\* x = a + 1; range(n); return x  was lowered by a new generator: block_1
\* holds store [t1, x], nop, return [x], and the counter stands at 2, t2
\* being the call's temporary, which no instruction names
C26_Witness ==
    /\ LoweredOnly
    /\ calls = 1
    /\ arg.ast_node = ProgramF(AssignCallReturn)
    /\ BlockAt(<<1, 1>>).instructions
          = <<Inst("store", <<TempName(1), <<"x">>>>, PyNone),
              Inst("nop", <<>>, PyNone),
              Inst("return", <<(<<"x">>)>>, PyNone)>>
    /\ temp_counter = 2

-----------------------------------------------------------------------------
(* C27 *)

\* a function or a block without its contents
FrameOfBlock(block) ==
    [name |-> block.name, successors |-> block.successors,
     predecessors |-> block.predecessors]

FrameOfFunction(f) ==
    [name |-> f.name, return_type |-> f.return_type, parameters |-> f.parameters,
     blocks |-> [i \in DOMAIN f.basic_blocks |-> FrameOfBlock(f.basic_blocks[i])]]

\* everything of a module but the instructions of its blocks
FrameOf(ir) ==
    [functions |-> [k \in DOMAIN ir.functions |-> FrameOfFunction(ir.functions[k])],
     global_vars |-> ir.global_vars]

\* what the pass rewrites an arithmetic instruction to
RewrittenTo ==
    IF op = "_constant_folding" THEN "const" ELSE "copy"

\* C27: constant folding and common-subexpression elimination rewrite in
\* place: the number and order of the instructions of every block and the
\* result name of every instruction stay, and an instruction that is not
\* rewritten is unchanged; no pass changes a block's name, successors or
\* predecessors, a function's parameters or return type, or global_vars.
C27_PassesKeepTheFrame ==
    /\ op \in {"_constant_folding", "_common_subexpression_elimination"} =>
          \A id \in BlockIds(arg.ir) :
             /\ Len(InstrsOf(ir_code, id)) = Len(InstrsOf(arg.ir, id))
             /\ \A i \in DOMAIN InstrsOf(arg.ir, id) :
                   /\ InstrsOf(ir_code, id)[i].result = InstrsOf(arg.ir, id)[i].result
                   /\ \/ InstrsOf(ir_code, id)[i] = InstrsOf(arg.ir, id)[i]
                      \/ /\ InstrsOf(arg.ir, id)[i].opcode \in ArithOps
                         /\ InstrsOf(ir_code, id)[i].opcode = RewrittenTo
    /\ op # "init" => FrameOf(ir_code) = FrameOf(arg.ir)

\* common-subexpression elimination ran over [add(a,b) -> t1, store(5, a),
\* add(a,b) -> t3]: the third instruction is now a copy with the result t3,
\* the first two are as they were, and block_1 still leads to block_2
C27_Witness ==
    /\ op = "_common_subexpression_elimination"
    /\ BlockOne(arg.ir) = <<Inst("add", <<(<<"a">>), (<<"b">>)>>, TempName(1)),
                            Inst("store", <<(<<"5">>), (<<"a">>)>>, PyNone),
                            Inst("add", <<(<<"a">>), (<<"b">>)>>, TempName(3))>>
    /\ BlockOne(ir_code)[3].opcode = "copy"
    /\ BlockOne(ir_code)[3].result = TempName(3)
    /\ SubSeq(BlockOne(ir_code), 1, 2) = SubSeq(BlockOne(arg.ir), 1, 2)
    /\ ir_code.functions[1].basic_blocks[1].successors = <<BlockName(2)>>
    /\ ir_code.functions[1].basic_blocks[2].predecessors = <<BlockName(1)>>
    /\ ir_code.global_vars # <<>>

-----------------------------------------------------------------------------
(* C28 *)

\* C28: in every function produced by lowering, block B is among the
\* successors of block A exactly when block A is among the predecessors of
\* block B.
C28_SuccessorsMirrorPredecessors ==
    LoweredModule =>
        \A p \in Places : \A q \in Places :
           p[1] = q[1] =>
              (InSeq(BlockAt(q).name, BlockAt(p).successors)
                  <=> InSeq(BlockAt(p).name, BlockAt(q).predecessors))

\* def f(n): if c: x = a + 1  was lowered: block_1 names block_2 and block_3
\* as successors and neither lists block_1 as a predecessor; only the merge
\* block block_4 lists its predecessors
C28_BranchEdgeWithoutPredecessor ==
    /\ LoweredModule
    /\ LoweredAst = ProgramF(<<If(Name(<<"c">>), <<AssignX>>, <<>>)>>)
    /\ BlockAt(<<1, 1>>).successors = <<BlockName(2), BlockName(3)>>
    /\ BlockNamed(LoweredFunctions[1], BlockName(2)).predecessors = <<>>
    /\ BlockNamed(LoweredFunctions[1], BlockName(3)).predecessors = <<>>
    /\ BlockNamed(LoweredFunctions[1], BlockName(4)).predecessors
          = <<BlockName(2), BlockName(3)>>

-----------------------------------------------------------------------------
(* C29 *)

\* instruction k of the block writes one of the operand names of inst, by a
\* store to it or as its result
Writes(instrs, k, inst) ==
    \/ /\ instrs[k].opcode = "store"
       /\ Len(instrs[k].operands) = 2
       /\ InSeq(instrs[k].operands[2], inst.operands)
    \/ InSeq(instrs[k].result, inst.operands)

\* C29: common-subexpression elimination replaces an arithmetic instruction
\* by a copy of an earlier result only when no instruction between the two
\* writes one of the operand names they share.
C29_NoCopyAcrossWrites ==
    op = "_common_subexpression_elimination" =>
        \A id \in BlockIds(arg.ir) :
           \A i \in DOMAIN InstrsOf(arg.ir, id) :
              (Redundant(InstrsOf(arg.ir, id), i) /\ InstrsOf(ir_code, id)[i].opcode = "copy") =>
                 \A k \in (Least(EarlierSame(InstrsOf(arg.ir, id), i)) + 1)..(i - 1) :
                    ~Writes(InstrsOf(arg.ir, id), k, InstrsOf(arg.ir, id)[i])

\* [add(a,b) -> t1, store(5, a), add(a,b) -> t3]: the second add became a
\* copy of t1 although a was stored to in between
C29_CopyAcrossStore ==
    /\ op = "_common_subexpression_elimination"
    /\ BlockOne(arg.ir) = <<Inst("add", <<(<<"a">>), (<<"b">>)>>, TempName(1)),
                            Inst("store", <<(<<"5">>), (<<"a">>)>>, PyNone),
                            Inst("add", <<(<<"a">>), (<<"b">>)>>, TempName(3))>>
    /\ BlockOne(ir_code)[3] = Inst("copy", <<TempName(1)>>, TempName(3))
    /\ ret.value = <<[type |-> "common_subexpression",
                      original |-> Inst("add", <<(<<"a">>), (<<"b">>)>>, TempName(3)),
                      reused |-> TempName(1),
                      location |-> <<"t", "e", "s", "t", ".">> \o BlockName(1)]>>

-----------------------------------------------------------------------------
(* C30 *)

\* C30: dead-code elimination is idempotent: a run that follows a run over
\* the same module deletes nothing and returns an empty list.
C30_DeadCodeEliminationIdempotent ==
    [][(/\ op = "_dead_code_elimination"
        /\ op' = "_dead_code_elimination"
        /\ calls' = calls + 1)
          => (ir_code' = ir_code /\ ret'.value = <<>>)]_vars

\* the second of two runs over [add(5,3) -> t1, mul(t1,2) -> t2]: the first
\* run deleted the mul and left the add, whose result the mul was the only
\* one to use; the second run deleted the add
C30_SecondRunDeletes ==
    /\ op = "_dead_code_elimination"
    /\ calls = 2
    /\ BlockOne(arg.ir) = <<Inst("add", <<(<<"5">>), (<<"3">>)>>, TempName(1))>>
    /\ DeadCodeElimination(HandBuilt(<<Inst("add", <<(<<"5">>), (<<"3">>)>>, TempName(1)),
                                       Inst("mul", <<TempName(1), (<<"2">>)>>, TempName(2))>>,
                                     2)).ir = arg.ir
    /\ BlockOne(ir_code) = <<>>
    /\ ret.value = <<[type |-> "unused_temp", temp |-> TempName(1),
                      location |-> <<"t", "e", "s", "t", ".">> \o BlockName(1)]>>

=============================================================================
